---- MODULE Spec2Model ----
(***************************************************************************)
(* Portfolio ledger of project.py: the Portfolio engine (update_cash,      *)
(* record_transaction and its helpers) over the four tables of init_db,    *)
(* inside one psycopg2 connection per engine session.                      *)
(*                                                                         *)
(* Units.  Every column is DECIMAL(15,2): money is counted in cents and    *)
(* share quantities in hundredths of a share, so 115 is 1.15.  Products    *)
(* of a quantity and a price are in 1/10000 and are brought back to the    *)
(* column's two decimals by the store's rounding (half away from zero).    *)
(* The numbers a caller passes are either exact (the ints and Decimals of  *)
(* the test-suite) or Python floats (the CLI); the flag binary of a call   *)
(* says which.  An exact number is an int when it is whole and a Decimal   *)
(* otherwise.  The prices of get_stock_price are floats.  Products and     *)
(* comparisons made in Python follow the type: exact for ints and          *)
(* Decimals, IEEE 754 doubles for floats, TypeError for the product of a   *)
(* Decimal and a float; the realised delta is computed in floats for all.  *)
(***************************************************************************)
EXTENDS Integers, Sequences, FiniteSets, TLC

VARIABLES committed, work, sess, tseq, cseq, last, pre, nops

vars == <<committed, work, sess, tseq, cseq, last, pre, nops>>

(* Number of engine calls (update_cash, record_transaction) in a behaviour. *)
MaxOps == 3

(* Inputs of the calls.  As floats 1.00 and 5.00 are exact, 1.03 and 1.30   *)
(* lie above their decimals and 1.13 and 1.15 below; 1.15 x 1.30 is 1.495,  *)
(* halfway between two cents, and its float product lies below it.          *)
Tickers == {"AAA", "BBB"}
UnknownTickers == {"ZZZ"}
Qtys == {100, 115}
BadQtys == {0, -100}
Prices == {103, 130}
CurrentPrices == {130}
Amounts == {103, 500}
BadAmounts == {0, -103}
CashTypes == {"DEP", "WIT"}
TradeTypes == {"BUY", "SELL"}
(* Kinds outside the allowed set of the call they are given to. *)
BadCashTypes == {"BUY"}
BadTradeTypes == {"HOLD"}
(* Manual prices that are not positive. *)
BadPrices == {0, -101}
(* The date argument as <<year, month, day>>; << >> when it is not given. *)
NoDate == << >>
Dates == {<<2024, 2, 29>>}
BadDates == {<<2023, 2, 29>>, <<2024, 13, 1>>}
(* 0: no store failure; k: the k-th mutating statement of the call fails. *)
FailPoints == 0 .. 4

(***************************************************************************)
(* Arithmetic of the store                                                 *)
(***************************************************************************)
(* numeric rounding of n/d (d > 0) to an integer, halves away from zero:   *)
(* ROUND(x, 2) and the coercion of a value to a DECIMAL(15,2) column.      *)
RoundDiv(n, d) ==
    IF n >= 0 THEN (2 * n + d) \div (2 * d)
              ELSE -((2 * (-n) + d) \div (2 * d))

RECURSIVE PowMod(_, _, _)
(* (x * 10^k) mod m *)
PowMod(x, k, m) == IF k = 0 THEN x % m ELSE PowMod((x * 10) % m, k - 1, m)

(* Weight (base 10000) and leading base-10000 digit of a positive          *)
(* two-decimal numeric given in hundredths, as numeric division reads them *)
(* to choose the scale of a quotient.                                      *)
Weight(x) == IF x < 100 THEN -1 ELSE IF x < 1000000 THEN 0 ELSE 1
FirstDigit(x) ==
    IF x < 100 THEN x * 100 ELSE IF x < 1000000 THEN x \div 100 ELSE x \div 1000000

(* Number of decimals numeric division keeps for a / b (16 significant     *)
(* digits at least).                                                       *)
DivScale(a, b) ==
    LET qweight == Weight(a) - Weight(b)
                   - (IF FirstDigit(a) <= FirstDigit(b) THEN 1 ELSE 0)
        rscale == 16 - 4 * qweight
    IN IF rscale < 2 THEN 2 ELSE rscale

(* TRUE when the quotient a / b, cut to DivScale(a, b) decimals, is        *)
(* rounded down (it is inexact and its next digit is below 5).             *)
QuotientRoundedDown(a, b) ==
    LET rem == PowMod(a, DivScale(a, b), b)
    IN a > 0 /\ rem # 0 /\ 2 * rem < b

(***************************************************************************)
(* Python floats                                                           *)
(*                                                                         *)
(* The CLI passes amounts, quantities and prices as Python floats, and     *)
(* record_transaction computes the realised delta in floats whatever it is *)
(* given.  A float is an IEEE 754 double: a sign, an integer m below 2^53  *)
(* and an exponent e, of value m * 2^e; every operation rounds its exact   *)
(* result to 53 bits, halves to even.  The integers involved exceed the    *)
(* machine integers of the model checker, so naturals are kept as          *)
(* sequences of limbs in base 2^15, least significant limb first, without  *)
(* leading zero limbs.                                                     *)
(***************************************************************************)
Radix == 2^15

RECURSIVE BigTrim(_)
BigTrim(a) ==
    IF a # << >> /\ a[Len(a)] = 0 THEN BigTrim(SubSeq(a, 1, Len(a) - 1)) ELSE a

RECURSIVE BigOfNat(_)
BigOfNat(n) == IF n = 0 THEN << >> ELSE <<n % Radix>> \o BigOfNat(n \div Radix)

RECURSIVE BigToNat(_)
BigToNat(a) == IF a = << >> THEN 0 ELSE a[1] + Radix * BigToNat(Tail(a))

Limb(a, i) == IF i <= Len(a) THEN a[i] ELSE 0

RECURSIVE BigCmpFrom(_, _, _)
BigCmpFrom(a, b, i) ==
    IF i = 0 THEN 0
    ELSE IF Limb(a, i) > Limb(b, i) THEN 1
    ELSE IF Limb(a, i) < Limb(b, i) THEN -1
    ELSE BigCmpFrom(a, b, i - 1)

(* -1, 0 or 1 as a is below, equal to or above b. *)
BigCmp(a, b) == BigCmpFrom(a, b, IF Len(a) > Len(b) THEN Len(a) ELSE Len(b))

RECURSIVE BigAddFrom(_, _, _, _)
BigAddFrom(a, b, i, carry) ==
    IF i > Len(a) /\ i > Len(b)
    THEN (IF carry = 0 THEN << >> ELSE <<carry>>)
    ELSE LET t == Limb(a, i) + Limb(b, i) + carry
         IN <<t % Radix>> \o BigAddFrom(a, b, i + 1, t \div Radix)

BigAdd(a, b) == BigAddFrom(a, b, 1, 0)

RECURSIVE BigSubFrom(_, _, _, _)
BigSubFrom(a, b, i, borrow) ==
    IF i > Len(a) THEN << >>
    ELSE LET t == a[i] - Limb(b, i) - borrow
         IN <<IF t < 0 THEN t + Radix ELSE t>>
            \o BigSubFrom(a, b, i + 1, IF t < 0 THEN 1 ELSE 0)

(* a - b for a >= b *)
BigSub(a, b) == BigTrim(BigSubFrom(a, b, 1, 0))

RECURSIVE BigMulSmallFrom(_, _, _, _)
BigMulSmallFrom(a, k, i, carry) ==
    IF i > Len(a) THEN BigOfNat(carry)
    ELSE LET t == a[i] * k + carry
         IN <<t % Radix>> \o BigMulSmallFrom(a, k, i + 1, t \div Radix)

(* a * k for 0 <= k <= Radix *)
BigMulSmall(a, k) == IF k = 0 THEN << >> ELSE BigMulSmallFrom(a, k, 1, 0)

RECURSIVE BigMul(_, _)
BigMul(a, b) ==
    IF a = << >> \/ b = << >> THEN << >>
    ELSE BigTrim(BigAdd(BigMulSmall(a, b[1]), <<0>> \o BigMul(a, Tail(b))))

RECURSIVE BigDivFrom(_, _, _, _)
BigDivFrom(a, k, i, rem) ==
    IF i = 0 THEN [q |-> << >>, r |-> rem]
    ELSE LET cur == rem * Radix + a[i]
             rest == BigDivFrom(a, k, i - 1, cur % k)
         IN [q |-> rest.q \o <<cur \div k>>, r |-> rest.r]

(* quotient q and remainder r of a by k, for 0 < k <= Radix *)
BigDivMod(a, k) ==
    LET d == BigDivFrom(a, k, Len(a), 0) IN [q |-> BigTrim(d.q), r |-> d.r]

(* a * 2^s *)
BigShl(a, s) ==
    IF a = << >> THEN << >>
    ELSE [i \in 1 .. (s \div 15) |-> 0] \o BigMulSmall(a, 2^(s % 15))

(* a \div 2^s *)
BigShr(a, s) ==
    IF Len(a) <= s \div 15 THEN << >>
    ELSE BigDivMod(SubSeq(a, (s \div 15) + 1, Len(a)), 2^(s % 15)).q

RECURSIVE BitLen(_)
BitLen(n) == IF n = 0 THEN 0 ELSE 1 + BitLen(n \div 2)

BigBitLen(a) == IF a = << >> THEN 0 ELSE 15 * (Len(a) - 1) + BitLen(a[Len(a)])

(* The double nearest to n * 2^e (a little more than that when sticky):    *)
(* the 53 leading bits of n, rounded to nearest, halves to even.           *)
DblRound(neg, n, e, sticky) ==
    LET d == BigBitLen(n) - 53
    IN IF d <= 0 THEN [neg |-> neg /\ n # << >>, m |-> n, e |-> e]
       ELSE LET q == BigShr(n, d)
                low == BigCmp(BigSub(n, BigShl(q, d)), BigShl(<<1>>, d - 1))
                up == low > 0 \/ (low = 0 /\ (sticky \/ q[1] % 2 = 1))
            IN [neg |-> neg, m |-> IF up THEN BigAdd(q, <<1>>) ELSE q, e |-> e + d]

(* float(n / den) for an integer n and 0 < den <= 10000: the double        *)
(* nearest to the decimal.                                                 *)
DblOfDec(n, den) ==
    LET a == IF n < 0 THEN -n ELSE n
        d == BigDivMod(BigShl(BigOfNat(a), 75), den)
    IN DblRound(n < 0, d.q, -75, d.r # 0)

(* The magnitudes of two doubles over their common exponent. *)
DblAlign(x, y) ==
    LET e == IF x.e < y.e THEN x.e ELSE y.e
    IN [x |-> BigShl(x.m, x.e - e), y |-> BigShl(y.m, y.e - e), e |-> e]

(* -1, 0 or 1 as |x| is below, equal to or above |y|. *)
DblCmpMag(x, y) == LET a == DblAlign(x, y) IN BigCmp(a.x, a.y)

(* x * y *)
DblMul(x, y) == DblRound(x.neg # y.neg, BigMul(x.m, y.m), x.e + y.e, FALSE)

(* x - y *)
DblSub(x, y) ==
    LET a == DblAlign(x, y)
        c == BigCmp(a.x, a.y)
    IN IF x.neg # y.neg THEN DblRound(x.neg, BigAdd(a.x, a.y), a.e, FALSE)
       ELSE IF c >= 0 THEN DblRound(x.neg, BigSub(a.x, a.y), a.e, FALSE)
       ELSE DblRound(~x.neg, BigSub(a.y, a.x), a.e, FALSE)

(* -1, 0 or 1 as the double x is below, equal to or above the decimal      *)
(* n / den: Python compares a float and a Decimal by their exact values.   *)
DblCmpDec(x, n, den) ==
    LET a == IF n < 0 THEN -n ELSE n
        l == BigMulSmall(x.m, den)
        c == IF x.e >= 0 THEN BigCmp(BigShl(l, x.e), BigOfNat(a))
                         ELSE BigCmp(l, BigShl(BigOfNat(a), -x.e))
    IN IF x.m = << >> THEN (IF n > 0 THEN -1 ELSE IF n < 0 THEN 1 ELSE 0)
       ELSE IF x.neg /\ n >= 0 THEN -1
       ELSE IF ~x.neg /\ n <= 0 THEN 1
       ELSE IF x.neg THEN -c ELSE c

(* The hundredths a DECIMAL(15,2) column keeps of the float x.  psycopg2   *)
(* sends repr(x), the shortest decimal that reads back as x, and the store *)
(* rounds that decimal, halves away from zero: x is rounded to the nearest *)
(* hundredth, and away from zero when it is the double of a half.          *)
DblToHundredths(x) ==
    LET l == BigMulSmall(x.m, 100)
        t == BigToNat(IF x.e >= 0 THEN BigShl(l, x.e) ELSE BigShr(l, -x.e))
        half == DblOfDec(2 * t + 1, 200)
        up == DblCmpMag(x, half) >= 0
        h == IF up THEN t + 1 ELSE t
    IN IF x.neg THEN -h ELSE h

(***************************************************************************)
(* Numbers of the caller                                                   *)
(*                                                                         *)
(* The tables hold the floats of the arguments the calls below are given,  *)
(* so that they are computed once; an operator and its table agree on      *)
(* every argument of the table.                                            *)
(***************************************************************************)
(* A Python float: its double, the whole hundredths below it (floor, with  *)
(* exact saying that it is those hundredths), and the hundredths a         *)
(* DECIMAL(15,2) column keeps of it.                                       *)
PyFloat(d) ==
    LET l == BigMulSmall(d.m, 100)
        t == IF d.e >= 0 THEN BigShl(l, d.e) ELSE BigShr(l, -d.e)
    IN [dbl |-> d, floor |-> BigToNat(t),
        exact |-> d.e >= 0 \/ BigCmp(BigShl(t, -d.e), l) = 0,
        hundredths |-> DblToHundredths(d)]

(* float(k / 100): the float of a number given in hundredths. *)
FloatOf(k) == PyFloat(DblOfDec(k, 100))

(* The quantities and amounts, and the prices, that the tables cover. *)
TabledAmounts == 0 .. 600
TabledPrices == 100 .. 130

FloatTable == [k \in TabledAmounts |-> FloatOf(k)]

Float(k) == IF k \in TabledAmounts THEN FloatTable[k] ELSE FloatOf(k)

(* quantity * price in floats. *)
FloatProductOf(quantity, price) ==
    PyFloat(DblMul(DblOfDec(quantity, 100), DblOfDec(price, 100)))

ProductTable ==
    [quantity \in TabledPrices, price \in TabledPrices |-> FloatProductOf(quantity, price)]

FloatProduct(quantity, price) ==
    IF quantity \in TabledPrices /\ price \in TabledPrices
    THEN ProductTable[quantity, price]
    ELSE FloatProductOf(quantity, price)

(* float(quantity) * (float(price) - float(avg_price)), in the hundredths  *)
(* the delta column keeps of it.                                           *)
FloatDeltaOf(quantity, price, avg_price) ==
    DblToHundredths(DblMul(DblOfDec(quantity, 100),
                           DblSub(DblOfDec(price, 100), DblOfDec(avg_price, 100))))

DeltaTable ==
    [quantity \in Qtys, price \in TabledPrices, avg_price \in TabledPrices |->
        FloatDeltaOf(quantity, price, avg_price)]

FloatDelta(quantity, price, avg_price) ==
    IF quantity \in Qtys /\ price \in TabledPrices /\ avg_price \in TabledPrices
    THEN DeltaTable[quantity, price, avg_price]
    ELSE FloatDeltaOf(quantity, price, avg_price)

(* A Python number: n is its decimal in 1/10000 and hundredths what a      *)
(* DECIMAL(15,2) column keeps of it; a float has the fields of PyFloat too. *)
OfFloat(n, f) ==
    [binary |-> TRUE, n |-> n, dbl |-> f.dbl, floor |-> f.floor, exact |-> f.exact,
     hundredths |-> f.hundredths]

Number(amount, binary) ==
    IF binary THEN OfFloat(100 * amount, Float(amount))
    ELSE [binary |-> FALSE, n |-> 100 * amount, hundredths |-> amount]

(* The exact number x (in hundredths) is a Decimal: it is not whole. *)
IsDecimal(x, binary) == ~binary /\ x % 100 # 0

(* quantity * price as Python computes it. *)
Product(quantity, price, binary) ==
    IF binary THEN OfFloat(quantity * price, FloatProduct(quantity, price))
    ELSE [binary |-> FALSE, n |-> quantity * price,
          hundredths |-> RoundDiv(quantity * price, 100)]

(* -1, 0 or 1 as the positive Python number v is below, equal to or above  *)
(* the Decimal balance (in hundredths) that cash_balance returns: a float  *)
(* and a Decimal are compared by their exact values.                       *)
CompareToBalance(v, balance) ==
    IF v.binary
    THEN IF v.floor > balance \/ (v.floor = balance /\ ~v.exact) THEN 1
         ELSE IF v.floor < balance THEN -1 ELSE 0
    ELSE IF v.n > 100 * balance THEN 1 ELSE IF v.n < 100 * balance THEN -1 ELSE 0

(* float(held) < quantity, held being the Decimal of the holdings row: two *)
(* floats when the quantity is a float, a float and a Decimal otherwise.   *)
HeldBelowOf(held, quantity, binary) ==
    IF binary THEN DblCmpMag(DblOfDec(held, 100), DblOfDec(quantity, 100)) < 0
    ELSE DblCmpDec(DblOfDec(held, 100), quantity, 100) < 0

BelowTable ==
    [held \in TabledAmounts, quantity \in Qtys, binary \in BOOLEAN |->
        HeldBelowOf(held, quantity, binary)]

HeldBelow(held, quantity, binary) ==
    IF held \in TabledAmounts /\ quantity \in Qtys
    THEN BelowTable[held, quantity, binary]
    ELSE HeldBelowOf(held, quantity, binary)

(***************************************************************************)
(* Arguments and the price oracle                                          *)
(***************************************************************************)
LeapYear(y) == y % 4 = 0 /\ (y % 100 # 0 \/ y % 400 = 0)

DaysIn(y, m) ==
    IF m = 2 THEN (IF LeapYear(y) THEN 29 ELSE 28)
    ELSE IF m \in {4, 6, 9, 11} THEN 30 ELSE 31

(* datetime.strptime(date, "%Y-%m-%d") accepts the date; no date is fine. *)
ValidDate(date) ==
    \/ date = NoDate
    \/ /\ date[1] \in 1 .. 9999
       /\ date[2] \in 1 .. 12
       /\ date[3] \in 1 .. DaysIn(date[1], date[2])

(* Variant: a manual price is not checked. *)
InvalidTradeArguments_PriceUnchecked(quantity, manual, price, date) ==
    quantity <= 0 \/ ~ValidDate(date)

(* The input checks of record_transaction, each raising ValueError.  The  *)
(* price argument is the manual price when manual is TRUE.                 *)
InvalidTradeArguments(quantity, manual, price, date) ==
    quantity <= 0 \/ (manual /\ price <= 0) \/ ~ValidDate(date)

(* The price the oracle gives when it has no market data for the date. *)
NoClose == -1

(* The last date of datetime: get_stock_price adds timedelta(days = 1) to  *)
(* the date it is given before it asks for the market data, which raises   *)
(* OverflowError for this one.                                             *)
LastDay == <<9999, 12, 31>>

(* Variant: the oracle prices every ticker. *)
Priced_Always(ticker) == TRUE

(* get_stock_price finds market data for the ticker. *)
Priced(ticker) == ticker \notin UnknownTickers

(***************************************************************************)
(* Tables (init_db)                                                        *)
(***************************************************************************)
NoHolding == [present |-> FALSE, quantity |-> 0, average_purchase_price |-> 0,
              current_price |-> 0, cost_basis |-> 0, current_value |-> 0]

EmptyStore == [cash_transactions |-> << >>,
               transactions |-> << >>,
               holdings |-> [t \in Tickers \cup UnknownTickers |-> NoHolding],
               realised_delta |-> << >>]

(* CHECK constraints of the tables. *)
CashCheck(row) == row.type \in {"DEP", "WIT", "BUY", "SELL"}

TransactionsCheck(row) ==
    /\ row.price > 0
    /\ row.quantity > 0
    /\ row.type \in {"BUY", "SELL"}

HoldingsCheck(row) ==
    /\ row.quantity >= 0
    /\ row.average_purchase_price > 0
    /\ row.current_price > 0
    /\ row.cost_basis >= 0
    /\ row.current_value >= 0

RECURSIVE SumAmounts(_)
SumAmounts(rows) ==
    IF rows = << >> THEN 0 ELSE Head(rows).amount + SumAmounts(Tail(rows))

(* Portfolio.cash_balance: COALESCE(SUM(amount), 0) *)
CashBalance(s) == SumAmounts(s.cash_transactions)

RECURSIVE SumValues(_, _)
SumValues(h, ts) ==
    IF ts = {} THEN 0
    ELSE LET t == CHOOSE x \in ts : TRUE
         IN (IF h[t].present THEN h[t].current_value ELSE 0) + SumValues(h, ts \ {t})

(* Portfolio.total_value *)
TotalValue(s) == SumValues(s.holdings, DOMAIN s.holdings)

(***************************************************************************)
(* Statements.  A context c carries the connection's view of the store,    *)
(* the two SERIAL sequences (not transactional), whether every statement   *)
(* so far succeeded, how many mutating statements were executed, how many  *)
(* price lookups were made, and how many of them came after a mutating     *)
(* statement of the call (late).                                           *)
(***************************************************************************)
Ctx(s, ts, cs) ==
    [ok |-> TRUE, store |-> s, tseq |-> ts, cseq |-> cs, writes |-> 0, lookups |-> 0,
     late |-> 0]

(* One call of get_stock_price. *)
Lookup(c) ==
    [c EXCEPT !.lookups = @ + 1, !.late = @ + (IF c.writes > 0 THEN 1 ELSE 0)]

Fail(c) == [c EXCEPT !.ok = FALSE]

(* The next statement of a try block: skipped once one has raised. *)
Then(c, inject, stmt) ==
    IF ~c.ok THEN c ELSE IF inject THEN Fail(c) ELSE stmt

InsertCash(c, amount, type) ==
    LET row == [id |-> c.cseq, amount |-> amount, type |-> type]
        c1 == [c EXCEPT !.cseq = @ + 1]
    IN IF CashCheck(row)
       THEN [c1 EXCEPT !.store.cash_transactions = Append(@, row), !.writes = @ + 1]
       ELSE Fail(c1)

InsertTransaction(c, ticker, price, quantity, type, value) ==
    LET row == [id |-> c.tseq, ticker |-> ticker, price |-> price,
                quantity |-> quantity, type |-> type,
                cash_impact |-> IF type = "SELL" THEN value.hundredths ELSE -value.hundredths]
        c1 == [c EXCEPT !.tseq = @ + 1]
    IN IF TransactionsCheck(row)
       THEN [c1 EXCEPT !.store.transactions = Append(@, row), !.writes = @ + 1]
       ELSE Fail(c1)

(* Variant: the holding is valued at the price of the trade. *)
HoldingAfterBuy_ValuedAtTradePrice(h, quantity, price, current_price, binary) ==
    [present |-> TRUE,
     quantity |-> (IF h.present THEN h.quantity ELSE 0) + quantity,
     average_purchase_price |->
         IF h.present
         THEN RoundDiv(h.quantity * h.average_purchase_price + quantity * price,
                       h.quantity + quantity)
         ELSE price,
     current_price |-> price,
     cost_basis |-> RoundDiv((IF h.present THEN 100 * h.cost_basis ELSE 0)
                             + quantity * price, 100),
     current_value |->
         RoundDiv(((IF h.present THEN h.quantity ELSE 0) + quantity) * price, 100)]

(* Variant: the average of the two prices, not weighted by the quantities. *)
HoldingAfterBuy_Unweighted(h, quantity, price, current_price, binary) ==
    [present |-> TRUE,
     quantity |-> (IF h.present THEN h.quantity ELSE 0) + quantity,
     average_purchase_price |->
         IF h.present THEN RoundDiv(h.average_purchase_price + price, 2) ELSE price,
     current_price |-> current_price,
     cost_basis |-> RoundDiv((IF h.present THEN 100 * h.cost_basis ELSE 0)
                             + quantity * price, 100),
     current_value |->
         RoundDiv(((IF h.present THEN h.quantity ELSE 0) + quantity) * current_price, 100)]

(* Variant: the upsert overwrites cost_basis with the value of the new purchase. *)
HoldingAfterBuy_CostOverwritten(h, quantity, price, current_price, binary) ==
    [present |-> TRUE,
     quantity |-> (IF h.present THEN h.quantity ELSE 0) + quantity,
     average_purchase_price |->
         IF h.present
         THEN RoundDiv(h.quantity * h.average_purchase_price + quantity * price,
                       h.quantity + quantity)
         ELSE price,
     current_price |-> current_price,
     cost_basis |-> RoundDiv(quantity * price, 100),
     current_value |->
         RoundDiv(((IF h.present THEN h.quantity ELSE 0) + quantity) * current_price, 100)]

(* The row the upsert of _update_holdings_on_buy leaves for the ticker: on *)
(* insert the Python products quantity * price and quantity *             *)
(* current_price as the columns keep them, the second a float as           *)
(* current_price is; on conflict the store's own arithmetic on the stored  *)
(* columns.                                                                *)
HoldingAfterBuy(h, quantity, price, current_price, binary) ==
    IF ~h.present
    THEN [present |-> TRUE,
          quantity |-> quantity,
          average_purchase_price |-> price,
          current_price |-> current_price,
          cost_basis |-> Product(quantity, price, binary).hundredths,
          current_value |-> Product(quantity, current_price, TRUE).hundredths]
    ELSE [present |-> TRUE,
          quantity |-> h.quantity + quantity,
          average_purchase_price |->
              RoundDiv(h.quantity * h.average_purchase_price + quantity * price,
                       h.quantity + quantity),
          current_price |-> current_price,
          cost_basis |-> RoundDiv(100 * h.cost_basis + quantity * price, 100),
          current_value |-> RoundDiv((h.quantity + quantity) * current_price, 100)]

(* _update_holdings_on_buy: the parameters of the upsert are built first,  *)
(* and quantity * current_price raises TypeError for a Decimal quantity,   *)
(* current_price being the float of get_stock_price; no statement runs.    *)
UpdateHoldingsOnBuy(c, ticker, quantity, price, current_price, binary) ==
    LET row == HoldingAfterBuy(c.store.holdings[ticker], quantity, price, current_price, binary)
    IN IF IsDecimal(quantity, binary) THEN Fail(c)
       ELSE IF HoldingsCheck(row)
       THEN [c EXCEPT !.store.holdings[ticker] = row, !.writes = @ + 1]
       ELSE Fail(c)

(* Variant: selling the whole holding is refused. *)
ValidateSale_Strict(c, ticker, quantity, binary) ==
    LET h == c.store.holdings[ticker]
    IN IF ~h.present \/ h.quantity <= quantity THEN Fail(c) ELSE c

(* _validate_sale: raises when there is no holding or                      *)
(* float(holding[0]) < quantity.                                           *)
ValidateSale(c, ticker, quantity, binary) ==
    LET h == c.store.holdings[ticker]
    IN IF ~h.present \/ HeldBelow(h.quantity, quantity, binary) THEN Fail(c) ELSE c

(* Variant: a sale leaves the cost basis as it was. *)
CostBasisAfterSell_Kept(cost_basis, quantity, sold) == cost_basis

(* Variant: the cost basis is scaled by the fraction sold, not the fraction kept. *)
CostBasisAfterSell_FractionSold(cost_basis, quantity, sold) ==
    RoundDiv(cost_basis * sold, quantity)

(* ROUND((cost_basis / quantity) * (quantity - sold), 2): the quotient is  *)
(* cut to the scale of numeric division before it is multiplied, so a      *)
(* product that is exactly half a cent falls below the half when the       *)
(* quotient was rounded down.                                              *)
CostBasisAfterSell(cost_basis, quantity, sold) ==
    LET n == cost_basis * (quantity - sold)
    IN IF 2 * (n % quantity) = quantity /\ QuotientRoundedDown(cost_basis, quantity)
       THEN n \div quantity
       ELSE RoundDiv(n, quantity)

(* Variant: the row of a holding sold out entirely is removed. *)
HoldingAfterSell_RowDropped(h, quantity, current_price) ==
    IF h.quantity = quantity
    THEN NoHolding
    ELSE [present |-> TRUE,
          quantity |-> h.quantity - quantity,
          average_purchase_price |-> h.average_purchase_price,
          current_price |-> current_price,
          cost_basis |-> CostBasisAfterSell(h.cost_basis, h.quantity, quantity),
          current_value |-> RoundDiv((h.quantity - quantity) * current_price, 100)]

(* The row the UPDATE of _update_holdings_on_sell leaves for the ticker. *)
HoldingAfterSell(h, quantity, current_price) ==
    [present |-> TRUE,
     quantity |-> h.quantity - quantity,
     average_purchase_price |-> h.average_purchase_price,
     current_price |-> current_price,
     cost_basis |-> CostBasisAfterSell(h.cost_basis, h.quantity, quantity),
     current_value |-> RoundDiv((h.quantity - quantity) * current_price, 100)]

UpdateHoldingsOnSell(c, ticker, quantity, current_price) ==
    LET h == c.store.holdings[ticker]
        row == HoldingAfterSell(h, quantity, current_price)
    IN IF ~h.present THEN [c EXCEPT !.writes = @ + 1]
       ELSE IF h.quantity = 0 \/ ~HoldingsCheck(row) THEN Fail(c)
       ELSE [c EXCEPT !.store.holdings[ticker] = row, !.writes = @ + 1]

(* Variant: the entry carries the next id of the sequence, not the trade's. *)
InsertRealisedDelta_WrongId(c, transaction_id, ticker, quantity, price, avg_price) ==
    LET row == [transaction_id |-> c.tseq, ticker |-> ticker,
                delta |-> FloatDelta(quantity, price, avg_price)]
    IN [c EXCEPT !.store.realised_delta = Append(@, row), !.writes = @ + 1]

(* Variant: the delta with its sign reversed (average cost minus sale price). *)
InsertRealisedDelta_Reversed(c, transaction_id, ticker, quantity, price, avg_price) ==
    LET row == [transaction_id |-> transaction_id, ticker |-> ticker,
                delta |-> FloatDelta(quantity, avg_price, price)]
    IN [c EXCEPT !.store.realised_delta = Append(@, row), !.writes = @ + 1]

(* realised_delta = float(quantity) * (float(price) - float(avg_price)) *)
InsertRealisedDelta(c, transaction_id, ticker, quantity, price, avg_price) ==
    LET row == [transaction_id |-> transaction_id, ticker |-> ticker,
                delta |-> FloatDelta(quantity, price, avg_price)]
    IN [c EXCEPT !.store.realised_delta = Append(@, row), !.writes = @ + 1]

(***************************************************************************)
(* Outcomes of a call.  A raise leaves the connection as it was; the       *)
(* except clause of a try block rolls the connection back to the last      *)
(* commit (base) and makes the call return False.                          *)
(***************************************************************************)
Raise(c, error) == [c EXCEPT !.ok = FALSE] @@ [result |-> error]

ReturnTrue(c) == c @@ [result |-> "True"]

(* Variant: the except clause rolls back and lets the error reach the caller. *)
ExceptRollback_Raises(c, base) == [c EXCEPT !.store = base] @@ [result |-> "PersistenceFailure"]

(* Variant: the except clause returns False without rolling back. *)
ExceptRollback_Missing(c, base) == c @@ [result |-> "False"]

ExceptRollback(c, base) == [c EXCEPT !.store = base] @@ [result |-> "False"]

(* The end of a try block: return True, or the except clause. *)
EndOfTry(c, base) == IF c.ok THEN ReturnTrue(c) ELSE ExceptRollback(c, base)

(***************************************************************************)
(* Portfolio.update_cash                                                   *)
(***************************************************************************)
(* Variant: a deposit is entered as a debit. *)
SignedAmount_Debit(amount, type) == -amount

(* amount if trans_type == "DEP" else -amount *)
SignedAmount(amount, type) == IF type = "DEP" THEN amount ELSE -amount

(* Variant: withdrawing the whole balance is refused. *)
OverWithdraw_Strict(type, amount, balance) ==
    type = "WIT" /\ CompareToBalance(amount, balance) >= 0

(* Variant: a withdrawal is never refused. *)
OverWithdraw_Never(type, amount, balance) == FALSE

(* trans_type == "WIT" and amount > balance, amount being a Python number *)
(* and balance the Decimal of cash_balance.                                *)
OverWithdraw(type, amount, balance) ==
    type = "WIT" /\ CompareToBalance(amount, balance) > 0

UpdateCashCall(s, base, ts, cs, amount, type, binary, failAt) ==
    LET c0 == Ctx(s, ts, cs)
    IN IF amount <= 0 THEN Raise(c0, "InvalidArgument")
       ELSE IF type \notin {"DEP", "WIT"} THEN Raise(c0, "InvalidArgument")
       ELSE IF OverWithdraw(type, Number(amount, binary), CashBalance(s))
            THEN Raise(c0, "InsufficientFunds")
       ELSE EndOfTry(Then(c0, failAt = 1, InsertCash(c0, SignedAmount(amount, type), type)),
                     base)

(***************************************************************************)
(* Portfolio.record_transaction                                            *)
(***************************************************************************)
(* Variant: the cash entry of a BUY credits the value of the purchase. *)
BuySteps_CashCredited(c0, ticker, quantity, price, current_price, value, failAt) ==
    LET Traded(c) == Then(c, failAt = 1, InsertTransaction(c, ticker, price, quantity, "BUY", value))
        Held(c) == Then(c, failAt = 2, UpdateHoldingsOnBuy(c, ticker, quantity, price, current_price, value.binary))
        Paid(c) == Then(c, failAt = 3, InsertCash(c, value.hundredths, "BUY"))
    IN Paid(Held(Traded(c0)))

(* Variant: the current price is looked up after the trade entry is inserted. *)
BuySteps_LateLookup(c0, ticker, quantity, price, current_price, value, failAt) ==
    LET Traded(c) == Then(c, failAt = 1, InsertTransaction(c, ticker, price, quantity, "BUY", value))
        Looked(c) == Then(c, FALSE, Lookup(c))
        Held(c) == Then(c, failAt = 2, UpdateHoldingsOnBuy(c, ticker, quantity, price, current_price, value.binary))
        Paid(c) == Then(c, failAt = 3, InsertCash(c, -value.hundredths, "BUY"))
    IN Paid(Held(Looked(Traded(c0))))

(* The statements of a BUY, each applied to the connection the one before  *)
(* it left.                                                                *)
BuySteps(c0, ticker, quantity, price, current_price, value, failAt) ==
    LET Traded(c) == Then(c, failAt = 1, InsertTransaction(c, ticker, price, quantity, "BUY", value))
        Held(c) == Then(c, failAt = 2, UpdateHoldingsOnBuy(c, ticker, quantity, price, current_price, value.binary))
        Paid(c) == Then(c, failAt = 3, InsertCash(c, -value.hundredths, "BUY"))
    IN Paid(Held(Traded(c0)))

(* Variant: no _validate_sale, and a holdings table without its CHECKs. *)
SellSteps_Unguarded(c0, ticker, quantity, type, price, current_price, value, failAt) ==
    LET Traded(c) == Then(c, failAt = 1, InsertTransaction(c, ticker, price, quantity, type, value))
        h == Traded(c0).store.holdings[ticker]
        Held(c) == Then(c, failAt = 2, IF ~h.present THEN [c EXCEPT !.writes = @ + 1]
                              ELSE IF h.quantity = 0 THEN Fail(c)
                              ELSE [c EXCEPT !.store.holdings[ticker] =
                                                HoldingAfterSell(h, quantity, current_price),
                                            !.writes = @ + 1])
        Paid(c) == Then(c, failAt = 3, InsertCash(c, value.hundredths, "SELL"))
        Gained(c) == Then(c, failAt = 4, InsertRealisedDelta(c, c0.tseq, ticker, quantity, price,
                                                      h.average_purchase_price))
    IN Gained(Paid(Held(Traded(c0))))

(* The statements of a trade that is not a BUY.  avg_price is read from    *)
(* the holdings row between _validate_sale and the UPDATE of the row;      *)
(* neither the trade insert nor _validate_sale writes the row, so it is    *)
(* the row of c0.                                                          *)
SellSteps(c0, ticker, quantity, type, price, current_price, value, failAt) ==
    LET Traded(c) == Then(c, failAt = 1, InsertTransaction(c, ticker, price, quantity, type, value))
        Validated(c) == Then(c, FALSE, ValidateSale(c, ticker, quantity, value.binary))
        avg_price == c0.store.holdings[ticker].average_purchase_price
        Held(c) == Then(c, failAt = 2, UpdateHoldingsOnSell(c, ticker, quantity, current_price))
        Paid(c) == Then(c, failAt = 3, InsertCash(c, value.hundredths, "SELL"))
        Gained(c) == Then(c, failAt = 4, InsertRealisedDelta(c, c0.tseq, ticker, quantity, price, avg_price))
    IN Gained(Paid(Held(Validated(Traded(c0)))))

(* Variant: no funds check before a purchase. *)
InsufficientFunds_Never(type, value, balance) == FALSE

(* Variant: the comparison reversed. *)
InsufficientFunds_Reversed(type, value, balance) ==
    type = "BUY" /\ CompareToBalance(value, balance) < 0

(* Variant: a purchase worth exactly the balance is refused too. *)
InsufficientFunds_Strict(type, value, balance) ==
    type = "BUY" /\ CompareToBalance(value, balance) >= 0

(* trans_type == "BUY" and value > balance; value is the Python number     *)
(* price * quantity and the balance the Decimal of cash_balance.           *)
InsufficientFunds(type, value, balance) ==
    type = "BUY" /\ CompareToBalance(value, balance) > 0

(* record_transaction from its funds check on: value is price * quantity   *)
(* and balance what cash_balance returned.                                 *)
TradeOfValue(c, base, balance, ticker, quantity, type, price, current_price, value, failAt) ==
    IF InsufficientFunds(type, value, balance)
    THEN Raise(c, "InsufficientFunds")
    ELSE EndOfTry(IF type = "BUY"
                  THEN BuySteps(c, ticker, quantity, price, current_price, value, failAt)
                  ELSE SellSteps(c, ticker, quantity, type, price, current_price, value, failAt),
                  base)

(* price is manual_price when manual is TRUE and otherwise the price the   *)
(* oracle gives for the transaction date; current_price is the price the   *)
(* oracle gives for today.  The first lookup (current price) is made for   *)
(* every call, the second only without a manual price; it raises          *)
(* OverflowError when the date has no next day (LastDay) and otherwise     *)
(* IndexError when the oracle has no close for the date (NoClose).  value  *)
(* is price * quantity: a float when the price is the oracle's, and        *)
(* TypeError when the quantity is then a Decimal.                          *)
RecordTransactionCall(s, base, ts, cs, ticker, quantity, type, date, manual, price, current_price, binary, failAt) ==
    LET c0 == Ctx(s, ts, cs)
        c1 == Lookup(c0)
        c2 == IF manual THEN c1 ELSE Lookup(c1)
    IN IF InvalidTradeArguments(quantity, manual, price, date)
       THEN Raise(c0, "InvalidArgument")
       ELSE IF ~Priced(ticker) THEN Raise(c1, "UnknownTicker")
       ELSE IF ~manual /\ date = LastDay THEN Raise(c2, "OverflowError")
       ELSE IF ~manual /\ price = NoClose THEN Raise(c2, "IndexError")
       ELSE IF ~manual /\ IsDecimal(quantity, binary) THEN Raise(c2, "TypeError")
       ELSE TradeOfValue(c2, base, CashBalance(s), ticker, quantity, type, price,
                         current_price, Product(price, quantity, binary \/ ~manual), failAt)

(***************************************************************************)
(* The engine session                                                      *)
(***************************************************************************)
(* The last call: its arguments, the ids its inserts draw (tid, cid), its   *)
(* outcome and the number of mutating statements it executed.              *)
NoCall == [op |-> "none", ticker |-> "", quantity |-> 0, type |-> "", date |-> NoDate,
           manual |-> FALSE, price |-> 0, current_price |-> 0, amount |-> 0,
           binary |-> FALSE, failAt |-> 0, tid |-> 0, cid |-> 0, result |-> "",
           writes |-> 0, lookups |-> 0, late |-> 0]

(* The ledger a session may find: a new database, or one in which an       *)
(* earlier session committed a deposit of 5.00.                            *)
SeedCall == UpdateCashCall(EmptyStore, EmptyStore, 1, 1, 500, "DEP", FALSE, 0)
Seeds == {Ctx(EmptyStore, 1, 1), Ctx(SeedCall.store, SeedCall.tseq, SeedCall.cseq)}

Init ==
    \E seed \in Seeds :
        /\ committed = seed.store
        /\ work = seed.store
        /\ sess = "closed"
        /\ tseq = seed.tseq
        /\ cseq = seed.cseq
        /\ last = NoCall
        /\ pre = seed.store
        /\ nops = 0

(* Portfolio.__enter__ *)
Enter ==
    /\ sess = "closed"
    /\ nops < MaxOps
    /\ sess' = "open"
    /\ work' = committed
    /\ pre' = committed
    /\ last' = [NoCall EXCEPT !.op = "enter"]
    /\ UNCHANGED <<committed, tseq, cseq, nops>>

(* Portfolio.__exit__ without an exception: commit and close. *)
ExitCommit ==
    /\ sess = "open"
    /\ sess' = "closed"
    /\ committed' = work
    /\ pre' = work
    /\ last' = [NoCall EXCEPT !.op = "exit_commit"]
    /\ UNCHANGED <<work, tseq, cseq, nops>>

(* Variant: the exit with an exception commits as the clean exit does. *)
ExitRollback_Commits ==
    /\ sess = "open"
    /\ sess' = "closed"
    /\ committed' = work
    /\ pre' = work
    /\ last' = [NoCall EXCEPT !.op = "exit_rollback"]
    /\ UNCHANGED <<work, tseq, cseq, nops>>

(* Portfolio.__exit__ with an exception: rollback and close. *)
ExitRollback ==
    /\ sess = "open"
    /\ sess' = "closed"
    /\ work' = committed
    /\ pre' = work
    /\ last' = [NoCall EXCEPT !.op = "exit_rollback"]
    /\ UNCHANGED <<committed, tseq, cseq, nops>>

(* A call made inside the with block returns: r is what it leaves and call *)
(* the record of its arguments.                                            *)
Returns(r, call) ==
    /\ work' = r.store
    /\ tseq' = r.tseq
    /\ cseq' = r.cseq
    /\ last' = [call EXCEPT !.tid = tseq, !.cid = cseq, !.result = r.result,
                            !.writes = r.writes, !.lookups = r.lookups, !.late = r.late]
    /\ pre' = work
    /\ nops' = nops + 1
    /\ UNCHANGED <<committed, sess>>

UpdateCash(amount, type, binary, failAt) ==
    /\ sess = "open"
    /\ nops < MaxOps
    /\ Returns(UpdateCashCall(work, committed, tseq, cseq, amount, type, binary, failAt),
               [NoCall EXCEPT !.op = "update_cash", !.amount = amount, !.type = type,
                              !.binary = binary, !.failAt = failAt])

RecordTransaction(ticker, quantity, type, date, manual, price, current_price, binary, failAt) ==
    /\ sess = "open"
    /\ nops < MaxOps
    /\ Returns(RecordTransactionCall(work, committed, tseq, cseq, ticker, quantity, type,
                                     date, manual, price, current_price, binary, failAt),
               [NoCall EXCEPT !.op = "record_transaction", !.ticker = ticker,
                              !.quantity = quantity, !.type = type, !.date = date,
                              !.manual = manual, !.price = price,
                              !.current_price = current_price,
                              !.binary = binary, !.failAt = failAt])

(* The update_cash calls of a behaviour: valid ones with exact and with     *)
(* float amounts, one whose INSERT fails in the store, and ones with an     *)
(* amount or a kind the call refuses.                                       *)
CashCall(amount, type, binary, failAt) ==
    [amount |-> amount, type |-> type, binary |-> binary, failAt |-> failAt]

CashCalls ==
    {CashCall(a, k, b, 0) : a \in Amounts, k \in CashTypes, b \in BOOLEAN}
    \cup {CashCall(a, k, FALSE, 1) : a \in Amounts, k \in CashTypes}
    \cup {CashCall(a, k, FALSE, 0) : a \in BadAmounts, k \in CashTypes}
    \cup {CashCall(a, k, FALSE, 0) : a \in Amounts, k \in BadCashTypes}

(* The record_transaction calls of a behaviour. *)
TradeCall(ticker, quantity, type, date, manual, price, current_price, binary, failAt) ==
    [ticker |-> ticker, quantity |-> quantity, type |-> type, date |-> date,
     manual |-> manual, price |-> price, current_price |-> current_price,
     binary |-> binary, failAt |-> failAt]

(* Trades at a manual price, with exact and with float arguments. *)
ManualTrades ==
    {TradeCall(t, q, k, NoDate, TRUE, p, cp, b, 0) :
        t \in Tickers, q \in Qtys, k \in TradeTypes, p \in Prices,
        cp \in CurrentPrices, b \in BOOLEAN}

(* Trades at the price of the oracle (a float), today's or that of a date,  *)
(* trades of a date for which the oracle has no market data, trades of a    *)
(* Decimal quantity at the price of the oracle, and trades of the last date *)
(* of the calendar.                                                         *)
OracleTrades ==
    {TradeCall(t, q, k, d, FALSE, 113, 100, TRUE, 0) :
        t \in Tickers, q \in Qtys, k \in TradeTypes, d \in {NoDate} \cup Dates}
    \cup {TradeCall("AAA", 100, k, d, FALSE, NoClose, 100, TRUE, 0) :
        k \in TradeTypes, d \in {NoDate} \cup Dates}
    \cup {TradeCall("AAA", 115, k, NoDate, FALSE, 113, 100, FALSE, 0) : k \in TradeTypes}
    \cup {TradeCall("AAA", 100, k, LastDay, FALSE, 113, 100, TRUE, 0) : k \in TradeTypes}

(* Trades one of whose statements fails in the store. *)
FailedTrades ==
    {TradeCall("AAA", 100, k, NoDate, TRUE, 103, 100, FALSE, f) :
        k \in TradeTypes, f \in FailPoints \ {0}}

(* Trades with a quantity, a manual price, a date, a ticker or a kind that  *)
(* the call is meant to refuse.                                             *)
BadTrades ==
    {TradeCall(t, q, k, NoDate, TRUE, 103, 0, FALSE, 0) :
        t \in {"AAA"} \cup UnknownTickers, q \in BadQtys, k \in TradeTypes}
    \cup {TradeCall(t, 100, k, NoDate, TRUE, p, 0, FALSE, 0) :
        t \in {"AAA"} \cup UnknownTickers, k \in TradeTypes, p \in BadPrices}
    \cup {TradeCall("AAA", 100, k, d, TRUE, 103, 0, FALSE, 0) :
        k \in TradeTypes, d \in BadDates}
    \cup {TradeCall(t, 100, k, NoDate, m, IF m THEN 103 ELSE 0, 0, FALSE, 0) :
        t \in UnknownTickers, k \in TradeTypes, m \in BOOLEAN}
    \cup {TradeCall(t, 100, k, NoDate, TRUE, p, 100, FALSE, 0) :
        t \in Tickers, k \in BadTradeTypes, p \in Prices}

TradeCalls == ManualTrades \cup OracleTrades \cup FailedTrades \cup BadTrades

Next ==
    \/ Enter
    \/ ExitCommit
    \/ ExitRollback
    \/ \E c \in CashCalls : UpdateCash(c.amount, c.type, c.binary, c.failAt)
    \/ \E c \in TradeCalls :
           RecordTransaction(c.ticker, c.quantity, c.type, c.date, c.manual, c.price,
                             c.current_price, c.binary, c.failAt)

Spec == Init /\ [][Next]_vars

(***************************************************************************)
(* Properties                                                              *)
(***************************************************************************)
IsTrade == last.op = "record_transaction"

(* record_transaction on a ticker the oracle prices (on the trade date     *)
(* too), with a valid quantity, manual price and date.                      *)
PricedTrade ==
    /\ IsTrade
    /\ last.ticker \in Tickers
    /\ last.quantity > 0
    /\ last.manual => last.price > 0
    /\ ~last.manual => (last.price # NoClose /\ last.date # LastDay)
    /\ ValidDate(last.date)

IsBuy == PricedTrade /\ last.type = "BUY"
IsSell == PricedTrade /\ last.type = "SELL"
BoughtOk == IsBuy /\ last.result = "True"
SoldOk == IsSell /\ last.result = "True"

Held(s, t) == IF s.holdings[t].present THEN s.holdings[t].quantity ELSE 0

(* What the read accessors return is the same in both stores. *)
SameLedger(a, b) ==
    /\ CashBalance(a) = CashBalance(b)
    /\ a.holdings = b.holdings
    /\ a.transactions = b.transactions
    /\ a.realised_delta = b.realised_delta

(* r is n/d (d > 0) rounded to the nearest integer. *)
IsNearest(r, n, d) == 2 * (r * d - n) <= d /\ 2 * (n - r * d) <= d

(* r is n/d (d > 0) rounded to the nearest integer, halves away from zero. *)
IsRounded(r, n, d) ==
    /\ IsNearest(r, n, d)
    /\ (2 * (n - r * d) = d => n < 0)
    /\ (2 * (r * d - n) = d => n > 0)

OldRow == pre.holdings[last.ticker]
NewRow == work.holdings[last.ticker]

(* A ledger with 10000.00 of cash, as the funded_portfolio fixture. *)
FixtureCtx ==
    LET r == UpdateCashCall(EmptyStore, EmptyStore, 1, 1, 1000000, "DEP", FALSE, 0)
    IN Ctx(r.store, r.tseq, r.cseq)

AfterCall(r) == Ctx(r.store, r.tseq, r.cseq)

TradeOn(c, quantity, type, price) ==
    RecordTransactionCall(c.store, EmptyStore, c.tseq, c.cseq, "AAA", quantity, type,
                          NoDate, TRUE, price, 10000, FALSE, 0)

(* A SELL for more than is held (or of a ticker not held). *)
OverSell == IsSell /\ last.quantity > Held(pre, last.ticker)

(* C1 (as claimed): a SELL whose quantity exceeds the holding of the ticker, *)
(* or whose ticker has no holding, is rejected and changes nothing: cash     *)
(* balance, holdings, trade entries and realised-gain entries read after the *)
(* call equal those read before it, whatever was done earlier in the session.*)
C1_OverSellChangesNothing ==
    OverSell => (last.result # "True" /\ SameLedger(work, pre))

(* A BUY worth more than the cash balance. *)
BeyondCash == IsBuy /\ last.quantity * last.price > 100 * CashBalance(pre)

(* No statement of the call was executed, no id was drawn, and the ledger  *)
(* is as before the call.                                                  *)
NothingDone ==
    /\ last.writes = 0
    /\ work = pre
    /\ tseq = last.tid /\ cseq = last.cid

(* C2 (as claimed): a BUY whose value quantity x price exceeds the cash      *)
(* balance raises the insufficient-funds error and changes nothing: no       *)
(* statement of the call is executed, no id is drawn, and the ledger is as   *)
(* before the call.                                                          *)
C2_BuyBeyondCashRejected ==
    BeyondCash => (last.result = "InsufficientFunds" /\ NothingDone)

(* The part of C2 that holds: such a BUY raises and changes nothing; the     *)
(* error is the insufficient-funds error unless the value price * quantity   *)
(* cannot be computed.                                                       *)
C2_BuyBeyondCashRaises ==
    BeyondCash => (last.result \in {"InsufficientFunds", "TypeError"} /\ NothingDone)

(* The funds check refused a BUY in a session with pending writes. *)
C2_RefusedReached ==
    /\ BeyondCash
    /\ last.result = "InsufficientFunds"
    /\ pre # committed
    /\ CashBalance(pre) > 0

(* A BUY of a Decimal quantity at the price of the oracle, beyond the cash. *)
C2_TypeErrorReached == BeyondCash /\ last.result = "TypeError"

(* C3: in every reachable state every holding, committed or pending, has a   *)
(* quantity >= 0.                                                            *)
C3_QuantityNeverNegative ==
    \A s \in {work, committed, pre} : \A t \in DOMAIN s.holdings :
        s.holdings[t].quantity >= 0

C3_Witness ==
    /\ SoldOk
    /\ OldRow.quantity = last.quantity
    /\ NewRow.present /\ NewRow.quantity = 0

(* The writes of the last record_transaction call, as a later read sees them. *)
HasTradeEntry(s) ==
    \E i \in 1 .. Len(s.transactions) : s.transactions[i].id = last.tid
HasCashEntry(s) ==
    \E i \in 1 .. Len(s.cash_transactions) : s.cash_transactions[i].id = last.cid
HasGainEntry(s) ==
    \E i \in 1 .. Len(s.realised_delta) : s.realised_delta[i].transaction_id = last.tid

AllWrites(s) ==
    /\ HasTradeEntry(s)
    /\ HasCashEntry(s)
    /\ s.holdings[last.ticker] # pre.holdings[last.ticker]
    /\ HasGainEntry(s) <=> last.type = "SELL"

NoWrites(s) ==
    /\ ~HasTradeEntry(s)
    /\ ~HasCashEntry(s)
    /\ ~HasGainEntry(s)
    /\ s.holdings = pre.holdings \/ s.holdings = committed.holdings

CountType(rows, types) == Cardinality({i \in 1 .. Len(rows) : rows[i].type \in types})

(* Every trade of the store has its cash entry and, for a SELL, its gain. *)
WholeTrades(s) ==
    /\ CountType(s.cash_transactions, {"BUY", "SELL"}) = Len(s.transactions)
    /\ Len(s.realised_delta) = CountType(s.transactions, {"SELL"})

(* C4: when a record_transaction call has ended (True, False or a raise), a  *)
(* read sees all of its writes (trade entry, holding change, cash entry and, *)
(* for a SELL, the realised-gain entry) or none of them, and the committed   *)
(* store never holds a trade without its cash entry and gain entry.          *)
C4_AllOrNothing ==
    /\ IsTrade => \/ last.result = "True" /\ AllWrites(work)
                  \/ last.result # "True" /\ NoWrites(work)
    /\ WholeTrades(work)
    /\ WholeTrades(committed)

C4_Witness ==
    /\ IsTrade
    /\ last.result = "False"
    /\ last.writes >= 2
    /\ NoWrites(work)

(* C5 (as claimed): a SELL for more than is held is signalled by raising the *)
(* InsufficientShares error, before any store mutation of the call has been  *)
(* executed.                                                                 *)
C5_OverSellRaisesBeforeMutation ==
    OverSell => (last.result = "InsufficientShares" /\ last.writes = 0)

C6_Example ==
    LET b1 == TradeOn(FixtureCtx, 1000, "BUY", 10000)
        b2 == TradeOn(AfterCall(b1), 1000, "BUY", 20000)
    IN b2.result = "True" /\ b2.store.holdings["AAA"].average_purchase_price = 15000

(* C6: after a successful BUY of q at p on a holding of quantity Q and       *)
(* average cost A the average cost is (Q x A + q x p) / (Q + q) rounded to   *)
(* two decimals; on the first BUY of a ticker it is p; 10 @ 100 then         *)
(* 10 @ 200 gives 150.00.                                                    *)
C6_AverageCostAfterBuy ==
    /\ BoughtOk =>
         IF OldRow.present
         THEN IsRounded(NewRow.average_purchase_price,
                        OldRow.quantity * OldRow.average_purchase_price
                            + last.quantity * last.price,
                        OldRow.quantity + last.quantity)
         ELSE NewRow.average_purchase_price = last.price
    /\ C6_Example

C6_Witness ==
    /\ BoughtOk
    /\ OldRow.present /\ OldRow.quantity > 0
    /\ OldRow.average_purchase_price # last.price
    /\ (OldRow.quantity * OldRow.average_purchase_price + last.quantity * last.price)
           % (OldRow.quantity + last.quantity) # 0

(* The realised-gain entry of the last call. *)
GainOfCall ==
    LET i == CHOOSE j \in 1 .. Len(work.realised_delta) :
                 work.realised_delta[j].transaction_id = last.tid
    IN work.realised_delta[i]

C7_Example ==
    LET b == TradeOn(FixtureCtx, 1000, "BUY", 10000)
        s == TradeOn(AfterCall(b), 1000, "SELL", 15000)
    IN s.result = "True" /\ Len(s.store.realised_delta) = 1
       /\ s.store.realised_delta[1].delta = 50000

(* C7 (as claimed): every successful SELL of q at p records a realised delta *)
(* equal to q x (p - A), A the average cost before the sale.                 *)
C7_DeltaIsExactProduct ==
    SoldOk => /\ HasGainEntry(work)
              /\ 100 * GainOfCall.delta
                     = last.quantity * (last.price - OldRow.average_purchase_price)

(* C7 (amended): every successful SELL of q at p records a realised delta    *)
(* equal to q x (p - A) rounded to two decimals (the nearest cent), A the    *)
(* average cost before the sale; BUY 10 @ 100 then SELL 10 @ 150 records     *)
(* 500.00.                                                                   *)
C7_DeltaIsRoundedProduct ==
    /\ SoldOk => /\ HasGainEntry(work)
                 /\ GainOfCall.ticker = last.ticker
                 /\ IsNearest(GainOfCall.delta,
                              last.quantity * (last.price - OldRow.average_purchase_price),
                              100)
    /\ C7_Example

C7_Witness ==
    /\ SoldOk
    /\ HasGainEntry(work)
    /\ (last.quantity * (last.price - OldRow.average_purchase_price)) % 100 # 0

(* C8: after a successful SELL of q from a holding of quantity Q and cost    *)
(* basis C the cost basis is C / Q x (Q - q) to two decimals (the nearest    *)
(* cent), and the average cost of the holding is unchanged.                  *)
C8_CostBasisAfterSell ==
    SoldOk => /\ IsNearest(NewRow.cost_basis,
                           OldRow.cost_basis * (OldRow.quantity - last.quantity),
                           OldRow.quantity)
              /\ NewRow.average_purchase_price = OldRow.average_purchase_price

C8_Witness ==
    /\ SoldOk
    /\ last.quantity < OldRow.quantity
    /\ (OldRow.cost_basis * (OldRow.quantity - last.quantity)) % OldRow.quantity # 0

(* C9: after a successful BUY of q at p the cost basis is the previous cost  *)
(* basis (0 without a holding) plus q x p, rounded to two decimals.          *)
C9_CostBasisAfterBuy ==
    BoughtOk => IF OldRow.present
                THEN IsRounded(NewRow.cost_basis,
                               100 * OldRow.cost_basis + last.quantity * last.price, 100)
                ELSE IsNearest(NewRow.cost_basis, last.quantity * last.price, 100)

C9_Witness ==
    /\ BoughtOk
    /\ OldRow.present /\ OldRow.cost_basis > 0
    /\ (last.quantity * last.price) % 100 # 0

(* A BUY the balance covers, with no store failure during the call. *)
CoveredBuy ==
    IsBuy /\ last.quantity * last.price <= 100 * CashBalance(pre) /\ last.failAt = 0

(* C10: a BUY of q > 0 at p with q x p <= cash balance (equality included)  *)
(* succeeds when no store statement fails: the holding quantity grows by q   *)
(* and the cash balance falls by q x p, here taken to the nearest cent only. *)
C10_BuyTakesRoundedValue ==
    CoveredBuy => /\ last.result = "True"
                  /\ NewRow.present
                  /\ Held(work, last.ticker) = Held(pre, last.ticker) + last.quantity
                  /\ IsNearest(CashBalance(pre) - CashBalance(work),
                               last.quantity * last.price, 100)

(* A SELL the holding covers, with no store failure during the call. *)
CoveredSell ==
    IsSell /\ last.quantity <= Held(pre, last.ticker) /\ last.failAt = 0

(* BUY 10 @ 100.00 then SELL 5 @ 100.00 from a balance of 10000.00. *)
C11_Example ==
    LET b == TradeOn(FixtureCtx, 1000, "BUY", 10000)
        s == TradeOn(AfterCall(b), 500, "SELL", 10000)
    IN /\ s.result = "True"
       /\ s.store.holdings["AAA"].quantity = 500
       /\ CashBalance(s.store) = 1000000 - 100000 + 50000

(* C11: a SELL of q with 0 < q <= holding quantity at p succeeds when no      *)
(* store statement fails: the holding quantity falls by q and the cash        *)
(* balance rises by q x p, here taken to the nearest cent only; after         *)
(* BUY 10 @ p and SELL 5 @ p the holding is 5 and the balance is              *)
(* initial - 10p + 5p.                                                        *)
C11_SellGivesRoundedValue ==
    /\ CoveredSell => /\ last.result = "True"
                      /\ NewRow.present
                      /\ Held(work, last.ticker) = Held(pre, last.ticker) - last.quantity
                      /\ IsNearest(CashBalance(work) - CashBalance(pre),
                                   last.quantity * last.price, 100)
    /\ C11_Example

IsCash == last.op = "update_cash"

(* update_cash(amount, "DEP") with amount > 0 and no store failure. *)
ValidDeposit == IsCash /\ last.type = "DEP" /\ last.amount > 0 /\ last.failAt = 0

(* C12: every update_cash(amount, DEP) with amount > 0 succeeds and the cash *)
(* balance after the call is the balance before it plus amount, whatever     *)
(* came before in the session (one cash entry, of amount +amount, is added). *)
C12_DepositAddsAmount ==
    ValidDeposit => /\ last.result = "True"
                    /\ CashBalance(work) = CashBalance(pre) + last.amount
                    /\ work.cash_transactions
                           = Append(pre.cash_transactions,
                                    [id |-> last.cid, amount |-> last.amount, type |-> "DEP"])

(* A deposit after pending trades of the same session. *)
C12_Witness ==
    /\ ValidDeposit
    /\ last.result = "True"
    /\ pre # committed
    /\ Len(pre.transactions) > 0

(* update_cash(amount, "WIT") with 0 < amount <= balance and no store failure. *)
ValidWithdraw ==
    /\ IsCash /\ last.type = "WIT" /\ last.failAt = 0
    /\ last.amount > 0 /\ last.amount <= CashBalance(pre)

(* C13: every update_cash(amount, WIT) with 0 < amount <= cash balance (the  *)
(* whole balance included) succeeds and the cash balance after the call is   *)
(* the balance before it minus amount.                                       *)
C13_WithdrawTakesAmount ==
    ValidWithdraw => /\ last.result = "True"
                     /\ CashBalance(work) = CashBalance(pre) - last.amount

(* C14: update_cash(amount, WIT) with amount above the cash balance reports  *)
(* the insufficient-funds error, inserts no cash entry (no statement runs,   *)
(* no id is drawn) and leaves the balance and the rest of the ledger as they *)
(* were.                                                                     *)
C14_OverWithdrawRejected ==
    (IsCash /\ last.type = "WIT" /\ last.amount > CashBalance(pre))
        => /\ last.result = "InsufficientFunds"
           /\ last.writes = 0
           /\ cseq = last.cid
           /\ work = pre

C14_Witness ==
    /\ IsCash /\ last.type = "WIT"
    /\ last.amount > CashBalance(pre)
    /\ CashBalance(pre) > 0
    /\ pre # committed
    /\ last.result = "InsufficientFunds"

IsTradeKind(row) == row.type \in {"BUY", "SELL"}

(* The cash entries of kind BUY or SELL, in the order of their insertion. *)
TradeCash(s) == SelectSeq(s.cash_transactions, IsTradeKind)

(* +1 for a SELL, -1 for a BUY. *)
Direction(type) == IF type = "SELL" THEN 1 ELSE -1

(* The k-th trade entry and the k-th trade-kind cash entry pair up: neither *)
(* list has an entry without its partner, and the kinds agree.              *)
PairedTrades(s) ==
    /\ Len(TradeCash(s)) = Len(s.transactions)
    /\ \A i \in 1 .. Len(s.transactions) : TradeCash(s)[i].type = s.transactions[i].type

(* C15 (as claimed): in the pending and in the committed store every trade   *)
(* entry has exactly one cash entry of its kind and no trade-kind cash entry *)
(* is without its trade; the amount is -(price x quantity) for a BUY and     *)
(* +(price x quantity) for a SELL, and equals the trade's cash_impact.       *)
C15_CashEntryIsExactValue ==
    \A s \in {work, committed} :
        /\ PairedTrades(s)
        /\ \A i \in 1 .. Len(s.transactions) :
             LET t == s.transactions[i]
             IN /\ TradeCash(s)[i].amount = t.cash_impact
                /\ 100 * TradeCash(s)[i].amount = Direction(t.type) * t.price * t.quantity

(* C15 (amended): in the pending and in the committed store every trade      *)
(* entry has exactly one cash entry of its kind and no trade-kind cash entry *)
(* is without its trade; the amount equals the trade's cash_impact, which is *)
(* -(price x quantity) for a BUY and +(price x quantity) for a SELL rounded  *)
(* to two decimals (the nearest cent).                                       *)
C15_CashEntryIsRoundedValue ==
    \A s \in {work, committed} :
        /\ PairedTrades(s)
        /\ \A i \in 1 .. Len(s.transactions) :
             LET t == s.transactions[i]
             IN /\ TradeCash(s)[i].amount = t.cash_impact
                /\ IsNearest(TradeCash(s)[i].amount,
                             Direction(t.type) * t.price * t.quantity, 100)

(* A committed BUY and SELL, the SELL worth a fraction of a cent, beside a  *)
(* cash entry that is not a trade's.                                        *)
C15_Witness ==
    /\ Len(committed.transactions) = 2
    /\ committed.transactions[1].type = "BUY"
    /\ committed.transactions[2].type = "SELL"
    /\ (committed.transactions[2].price * committed.transactions[2].quantity) % 100 # 0
    /\ Len(committed.cash_transactions) > 2

IsPrefix(a, b) == Len(a) <= Len(b) /\ SubSeq(b, 1, Len(a)) = a

(* The realised-gain entries of the store that refer to the trade. *)
GainsOf(s, id) ==
    {j \in 1 .. Len(s.realised_delta) : s.realised_delta[j].transaction_id = id}

(* One gain entry for every SELL trade, none for any other trade, and none *)
(* without a trade.                                                        *)
OneGainPerSell(s) ==
    /\ \A i \in 1 .. Len(s.transactions) :
         Cardinality(GainsOf(s, s.transactions[i].id))
             = IF s.transactions[i].type = "SELL" THEN 1 ELSE 0
    /\ \A j \in 1 .. Len(s.realised_delta) :
         \E i \in 1 .. Len(s.transactions) :
             s.transactions[i].id = s.realised_delta[j].transaction_id

(* What a step does to the realised-gain entries: the committed ones stay  *)
(* as they are, in the committed store and in the session's view.          *)
CommittedGainsKept ==
    /\ IsPrefix(committed.realised_delta, committed'.realised_delta)
    /\ IsPrefix(committed.realised_delta, work'.realised_delta)

(* A call of the engine keeps the entries the session reads, the pending   *)
(* ones included; an exit with an exception abandons the session.          *)
GainsKept ==
    /\ CommittedGainsKept
    /\ last'.op # "exit_rollback" => IsPrefix(work.realised_delta, work'.realised_delta)

(* As GainsKept, for the calls that do not return False. *)
GainsKeptUnlessRolledBack ==
    /\ CommittedGainsKept
    /\ (last'.result # "False" /\ last'.op # "exit_rollback")
           => IsPrefix(work.realised_delta, work'.realised_delta)

(* C16: in the pending and in the committed store each SELL trade has        *)
(* exactly one realised-gain entry whose transaction_id is the trade's id    *)
(* and no BUY trade has one; no engine operation modifies or removes an      *)
(* existing realised-gain entry.                                             *)
C16_OneGainPerSellNeverChanged ==
    /\ [](OneGainPerSell(work) /\ OneGainPerSell(committed))
    /\ [][GainsKept]_vars

(* The part of C16 that holds: one entry per SELL trade and none per BUY,    *)
(* committed entries never changed or removed, and pending entries kept by   *)
(* every call that does not return False.                                    *)
C16_GainsKeptUnlessRolledBack ==
    /\ [](OneGainPerSell(work) /\ OneGainPerSell(committed))
    /\ [][GainsKeptUnlessRolledBack]_vars

(* A call that returned False and took a pending realised-gain entry with it. *)
C16_CallDroppedGain ==
    /\ last.result = "False"
    /\ Len(pre.realised_delta) > Len(committed.realised_delta)
    /\ work.realised_delta = committed.realised_delta

(* quantity x last price of a holding, in 1/10000. *)
Valuation(h) == IF h.present THEN h.quantity * h.current_price ELSE 0

ValueOf(h) == IF h.present THEN h.current_value ELSE 0

(* Every holding of the store is valued at its quantity times its last     *)
(* price, rounded to two decimals (the nearest cent), and the total value   *)
(* is the sum of these values.                                              *)
ValuedAtLastPrice(s) ==
    /\ \A t \in DOMAIN s.holdings :
         s.holdings[t].present
             => IsNearest(s.holdings[t].current_value, Valuation(s.holdings[t]), 100)
    /\ TotalValue(s) = ValueOf(s.holdings["AAA"]) + ValueOf(s.holdings["BBB"])
                           + ValueOf(s.holdings["ZZZ"])

(* C17: in the pending and in the committed store each holding has           *)
(* current_value = quantity x last price rounded to two decimals, the last   *)
(* price being the current price the oracle gave at the most recent trade of *)
(* the ticker (not the price of the trade); the total value is the sum of    *)
(* these values.                                                             *)
C17_ValuedAtOraclePrice ==
    /\ ValuedAtLastPrice(work)
    /\ ValuedAtLastPrice(committed)
    /\ (BoughtOk \/ SoldOk) => NewRow.current_price = last.current_price

(* A trade on a holding whose last price was another one, at a trade price  *)
(* that is not the current price, with a value that needs rounding.         *)
C17_Witness ==
    /\ BoughtOk \/ SoldOk
    /\ OldRow.present
    /\ OldRow.current_price # last.current_price
    /\ last.price # last.current_price
    /\ NewRow.quantity > 0
    /\ (NewRow.quantity * NewRow.current_price) % 100 # 0
    /\ TotalValue(work) > NewRow.current_value

(* update_cash with amount <= 0; record_transaction with quantity <= 0 or a *)
(* manual price <= 0.                                                       *)
BadCashArgument == IsCash /\ last.amount <= 0
BadTradeArgument == IsTrade /\ (last.quantity <= 0 \/ (last.manual /\ last.price <= 0))

(* C18: update_cash with amount <= 0 and record_transaction with             *)
(* quantity <= 0 or with a manual price <= 0 raise the invalid-argument      *)
(* error and mutate nothing: no statement runs, no id is drawn, and cash     *)
(* balance, holdings, trade entries and realised-gain entries are as before. *)
C18_InvalidArgumentChangesNothing ==
    (BadCashArgument \/ BadTradeArgument)
        => /\ last.result = "InvalidArgument"
           /\ last.writes = 0
           /\ tseq = last.tid /\ cseq = last.cid
           /\ work = pre

(* A manual price of 0 with a valid quantity, while the session has pending *)
(* writes.                                                                  *)
C18_Witness ==
    /\ BadTradeArgument
    /\ last.quantity > 0
    /\ last.result = "InvalidArgument"
    /\ pre # committed
    /\ Len(pre.transactions) > 0

(* update_cash with an amount of 0, while the session has pending writes. *)
C18_CashCaseReached ==
    BadCashArgument /\ last.result = "InvalidArgument" /\ pre # committed

(* C19: record_transaction for a ticker the oracle cannot price raises the   *)
(* unknown-ticker error and records nothing (no trade entry, no cash entry,  *)
(* no holding change, no realised-gain entry, no id drawn), for a BUY and    *)
(* for a SELL, with and without a manual price.                              *)
C19_UnknownTickerRecordsNothing ==
    (IsTrade /\ last.ticker \in UnknownTickers /\ ~BadTradeArgument /\ ValidDate(last.date))
        => /\ last.result = "UnknownTicker"
           /\ last.writes = 0
           /\ tseq = last.tid /\ cseq = last.cid
           /\ work = pre

(* A BUY with a manual price the balance covers, on an unknown ticker. *)
C19_Witness ==
    /\ IsTrade /\ last.ticker \in UnknownTickers
    /\ last.type = "BUY" /\ last.manual /\ last.price > 0 /\ last.quantity > 0
    /\ last.quantity * last.price <= 100 * CashBalance(pre)
    /\ last.result = "UnknownTicker"
    /\ pre # committed

(* A SELL without a manual price, on an unknown ticker. *)
C19_SellCaseReached ==
    /\ IsTrade /\ last.ticker \in UnknownTickers
    /\ last.type = "SELL" /\ ~last.manual
    /\ last.result = "UnknownTicker"

(* A call given a kind outside the allowed set of its operation. *)
BadKind ==
    \/ IsCash /\ last.type \notin CashTypes
    \/ IsTrade /\ last.type \notin TradeTypes

(* C20 (as claimed): update_cash with a kind other than DEP/WIT and          *)
(* record_transaction with a kind other than BUY/SELL are rejected with the  *)
(* invalid-argument error before any I/O: the call makes no price lookup and *)
(* executes no store statement (no id is drawn).                             *)
C20_BadKindRejectedBeforeIO ==
    BadKind => /\ last.result = "InvalidArgument"
               /\ last.lookups = 0
               /\ last.writes = 0
               /\ tseq = last.tid /\ cseq = last.cid

(* What a step does to the committed store and to the session: a clean     *)
(* exit commits the pending store, an exit with an exception leaves the     *)
(* committed store as it is and discards the pending store, both close the  *)
(* connection, and no other step changes the committed store.               *)
SessionIsUnitOfWork ==
    /\ last'.op = "exit_commit"
           => committed' = work /\ work' = work /\ sess' = "closed"
    /\ last'.op = "exit_rollback"
           => committed' = committed /\ work' = committed /\ sess' = "closed"
    /\ last'.op # "exit_commit" => committed' = committed

(* C21: an engine session is one unit of work: its exit without an exception *)
(* commits the session's pending mutations; its exit with an exception rolls *)
(* back every mutation of the session, the committed store being what it was *)
(* before the session (no step inside a session changes it); after either    *)
(* exit the connection is closed and nothing is pending.                     *)
C21_SessionIsUnitOfWork ==
    /\ [][SessionIsUnitOfWork]_vars
    /\ [](sess = "closed" => work = committed)

(* An exit with an exception that discards a pending trade. *)
C21_Witness ==
    /\ last.op = "exit_rollback"
    /\ sess = "closed"
    /\ Len(pre.transactions) > Len(committed.transactions)
    /\ work = committed

(* A clean exit that commits a pending trade. *)
C21_CommitReached ==
    /\ last.op = "exit_commit"
    /\ Len(committed.transactions) > 0
    /\ committed = pre

(* The number of mutating statements of the last call, had none failed. *)
StatementsOfCall == IF IsCash THEN 1 ELSE IF last.type = "BUY" THEN 3 ELSE 4

(* The last call passed its checks and reached the statement at which a    *)
(* store failure was due.                                                   *)
StoreFailed ==
    /\ last.failAt \in 1 .. StatementsOfCall
    /\ \/ /\ IsCash /\ last.amount > 0 /\ last.type \in CashTypes
          /\ ~(last.type = "WIT" /\ last.amount > CashBalance(pre))
       \/ /\ IsBuy
          /\ last.quantity * last.price <= 100 * CashBalance(pre)
       \/ /\ IsSell
          /\ last.quantity <= Held(pre, last.ticker)

(* C22: when a store statement fails during update_cash or during any step  *)
(* of record_transaction (trade insert, holding upsert or update, cash       *)
(* insert, realised-gain insert), the call returns False, no error reaches   *)
(* the caller, and none of the call's steps is left in the store: the        *)
(* statements before the failing one were executed and are rolled back.      *)
C22_StoreFailureRollsBack ==
    StoreFailed => /\ last.result = "False"
                   /\ last.writes = last.failAt - 1
                   /\ ~HasCashEntry(work)
                   /\ IsTrade => NoWrites(work)
                   /\ IsCash => work.cash_transactions = committed.cash_transactions

(* The realised-gain insert of a SELL fails after its three other statements. *)
C22_Witness ==
    /\ StoreFailed
    /\ IsSell
    /\ last.failAt = 4
    /\ last.writes = 3
    /\ last.result = "False"
    /\ work.holdings[last.ticker] = committed.holdings[last.ticker]

(* The insert of update_cash fails. *)
C22_CashCaseReached ==
    StoreFailed /\ IsCash /\ last.result = "False"

(* A SELL of the whole holding, with no store failure during the call. *)
SellsOut == CoveredSell /\ last.quantity = Held(pre, last.ticker)

(* A SELL of the whole holding succeeds and leaves the row, emptied. *)
EmptiedRowStays ==
    SellsOut => /\ last.result = "True"
                /\ NewRow.present
                /\ NewRow.quantity = 0
                /\ NewRow.cost_basis = 0
                /\ NewRow.current_value = 0

(* A successful BUY on a holding row of quantity 0. *)
BoughtOnEmptied == BoughtOk /\ OldRow.present /\ OldRow.quantity = 0

(* C23: a SELL of the entire holding succeeds and leaves the holding row     *)
(* with quantity 0, cost_basis 0 and current_value 0; a later BUY of         *)
(* q2 @ p2 on that row yields quantity q2, average cost exactly p2 and       *)
(* cost_basis q2 x p2, here taken to the nearest cent only.                  *)
C23_RebuyCostIsRoundedValue ==
    /\ EmptiedRowStays
    /\ BoughtOnEmptied => /\ NewRow.quantity = last.quantity
                          /\ NewRow.average_purchase_price = last.price
                          /\ IsNearest(NewRow.cost_basis, last.quantity * last.price, 100)

RECURSIVE SumImpacts(_, _)
(* SELL proceeds minus BUY costs of the ticker, as recorded in cash_impact. *)
SumImpacts(rows, t) ==
    IF rows = << >> THEN 0
    ELSE (IF Head(rows).ticker = t THEN Head(rows).cash_impact ELSE 0)
             + SumImpacts(Tail(rows), t)

RECURSIVE SumDeltas(_, _)
(* The realised deltas of the ticker. *)
SumDeltas(rows, t) ==
    IF rows = << >> THEN 0
    ELSE (IF Head(rows).ticker = t THEN Head(rows).delta ELSE 0)
             + SumDeltas(Tail(rows), t)

(* Realised deltas minus (SELL proceeds - BUY costs + cost basis). *)
ReconciliationGap(s, t) ==
    SumDeltas(s.realised_delta, t)
        - (SumImpacts(s.transactions, t) + s.holdings[t].cost_basis)

(* C24 (as claimed): in the pending and in the committed store, for every    *)
(* ticker, the sum of its realised deltas equals the sum of its SELL         *)
(* proceeds minus the sum of its BUY costs plus its cost basis; so with the  *)
(* holding sold down to 0 the realised deltas are proceeds minus costs.      *)
C24_GainsReconcile ==
    \A s \in {work, committed} : \A t \in Tickers : ReconciliationGap(s, t) = 0

(* A sale in which nothing is rounded: the holding before it carries its    *)
(* average cost exactly, and the shares sold are worth a whole number of    *)
(* cents both at that average and at the sale price.                        *)
SoldAtExactAverage ==
    /\ SoldOk
    /\ 100 * OldRow.cost_basis = OldRow.quantity * OldRow.average_purchase_price
    /\ (last.quantity * OldRow.average_purchase_price) % 100 = 0
    /\ (last.quantity * last.price) % 100 = 0

(* A BUY whose value q x p does not lie halfway between two cents. *)
BoughtOffHalfCent == BoughtOk /\ (last.quantity * last.price) % 100 # 50

(* C24 (amended): for every ticker the difference between the sum of its     *)
(* realised deltas and (SELL proceeds - BUY costs + cost basis) is 0 on an   *)
(* empty ledger, is left unchanged by every successful BUY whose value       *)
(* q x p does not lie halfway between two cents, and is left unchanged by a  *)
(* successful SELL of q at p when the holding's cost basis equals            *)
(* quantity x average cost and q x average cost and q x p are whole numbers  *)
(* of cents; a trade of one ticker never changes the difference of another.  *)
C24_GainsReconcileWithoutRounding ==
    /\ \A t \in Tickers : ReconciliationGap(EmptyStore, t) = 0
    /\ (BoughtOffHalfCent \/ SoldAtExactAverage)
           => ReconciliationGap(work, last.ticker) = ReconciliationGap(pre, last.ticker)
    /\ (BoughtOk \/ SoldOk)
           => \A t \in Tickers \ {last.ticker} :
                  ReconciliationGap(work, t) = ReconciliationGap(pre, t)

(* A partial sale at a gain from a holding bought twice, the sums still     *)
(* reconciling afterwards.                                                  *)
C24_Witness ==
    /\ SoldAtExactAverage
    /\ last.quantity < OldRow.quantity
    /\ Len(pre.transactions) >= 2
    /\ GainOfCall.delta # 0
    /\ ReconciliationGap(work, last.ticker) = 0

(* A holding sold down to 0 with the sums of its ticker not reconciled. *)
C24_SoldOutWithGap ==
    SoldOk /\ NewRow.quantity = 0 /\ ReconciliationGap(work, last.ticker) # 0

(***************************************************************************)
(* C25: in every execution of record_transaction, all price lookups (the   *)
(* current price and, without a manual price, the trade-date price) are    *)
(* made before the call's first mutating store statement; no lookup is     *)
(* made between the insert of the trade entry and the end of the call.     *)
(***************************************************************************)
(* The call got as far as its statements: it returned True or False. *)
ReachedStatements == IsTrade /\ last.result \in {"True", "False"}

C25_LookupsBeforeWrites ==
    IsTrade =>
        /\ last.late = 0
        /\ ReachedStatements => last.lookups = (IF last.manual THEN 1 ELSE 2)

(* A sale priced by the oracle twice, then written in four statements. *)
C25_Witness ==
    /\ SoldOk
    /\ ~last.manual
    /\ last.lookups = 2
    /\ last.writes = 4
    /\ last.late = 0

(* A purchase at a manual price: one lookup, then three statements. *)
C25_ManualBuyReached ==
    /\ BoughtOk
    /\ last.manual
    /\ last.lookups = 1
    /\ last.writes = 3
    /\ last.late = 0

(***************************************************************************)
(* C26: within a single engine session, after any sequence of deposit,     *)
(* withdraw, BUY and SELL calls, accepted or rejected, the cash balance is *)
(* never negative: neither the balance the session reads nor the committed *)
(* one.                                                                    *)
(***************************************************************************)
C26_BalanceNeverNegative ==
    /\ CashBalance(work) >= 0
    /\ CashBalance(pre) >= 0
    /\ CashBalance(committed) >= 0

(* A purchase refused for lack of funds after the cash was spent down to 0. *)
C26_Witness ==
    /\ IsTrade
    /\ last.type = "BUY"
    /\ last.result = "InsufficientFunds"
    /\ Len(work.cash_transactions) >= 2
    /\ CashBalance(work) = 0

(* A withdrawal refused because it exceeds a positive balance. *)
C26_OverWithdrawReached ==
    /\ IsCash
    /\ last.type = "WIT"
    /\ last.result = "InsufficientFunds"
    /\ CashBalance(work) > 0
    /\ last.amount > CashBalance(work)

(***************************************************************************)
(* C27 (as claimed): in a session of several mutating calls that exits     *)
(* cleanly, every call that returned success is reflected in the committed *)
(* store after the exit, also when another call of the session returned    *)
(* False in between: no call, whatever its outcome, removes an entry that  *)
(* an earlier call of the session left pending, and the clean exit commits *)
(* what is pending.                                                        *)
(***************************************************************************)
C27_SuccessfulCallsCommitted ==
    /\ (IsCash \/ IsTrade) =>
         /\ IsPrefix(pre.cash_transactions, work.cash_transactions)
         /\ IsPrefix(pre.transactions, work.transactions)
         /\ IsPrefix(pre.realised_delta, work.realised_delta)
    /\ last.op = "exit_commit" => (committed = pre /\ committed = work)

(* A call that returned False took the pending entries of earlier calls of  *)
(* the session with it.                                                    *)
C27_EarlierSuccessLost ==
    /\ IsCash \/ IsTrade
    /\ last.result = "False"
    /\ Len(pre.cash_transactions) > Len(committed.cash_transactions)
    /\ work = committed

(***************************************************************************)
(* C28 (as claimed): a successful BUY or SELL of a ticker leaves the       *)
(* holding of every other ticker unchanged (quantity, average cost, last   *)
(* price, cost basis, current value); update_cash leaves all holdings,     *)
(* trade entries and realised-gain entries unchanged.                      *)
(***************************************************************************)
OtherHoldingsKept ==
    (BoughtOk \/ SoldOk) =>
        \A t \in Tickers \ {last.ticker} : work.holdings[t] = pre.holdings[t]

TradesKept ==
    /\ work.holdings = pre.holdings
    /\ work.transactions = pre.transactions
    /\ work.realised_delta = pre.realised_delta

C28_FrameOfTradeAndCash ==
    /\ OtherHoldingsKept
    /\ IsCash => TradesKept

(* The part of C28 that holds: the other holdings after a successful trade, *)
(* and the trade tables after an update_cash that did not return False.     *)
C28_FrameUnlessRolledBack ==
    /\ OtherHoldingsKept
    /\ (IsCash /\ last.result # "False") => TradesKept

(* A successful sale of one ticker while another ticker is held. *)
C28_OtherHeldReached ==
    /\ SoldOk
    /\ \E t \in Tickers \ {last.ticker} : pre.holdings[t].present /\ pre.holdings[t].quantity > 0

(* An update_cash that returned False and took a pending purchase with it. *)
C28_CashCallDroppedHolding ==
    /\ IsCash
    /\ last.result = "False"
    /\ \E t \in Tickers : pre.holdings[t].present /\ ~work.holdings[t].present

(***************************************************************************)
(* Two engine sessions on the same store                                   *)
(*                                                                         *)
(* Each session has its own connection (get_db_connection in __enter__)    *)
(* and so its own database transaction, at PostgreSQL's default isolation  *)
(* READ COMMITTED: a statement reads the committed rows and the rows its   *)
(* own transaction has written.  In this specification the variables sess, *)
(* work, pre and last are functions of the session: work[s] holds the rows *)
(* session s has written and not committed, pre[s] the committed store at  *)
(* its entry, last[s] its call in progress.  update_cash and               *)
(* record_transaction are taken one step at a time: the balance check,     *)
(* then each statement of the try block, so that the other session may run *)
(* in between.  The calls are given valid arguments, trades a manual price *)
(* of 1.03 and a quoted price of 1.00.                                     *)
(***************************************************************************)
Sessions == {1, 2}
MaxCalls == 3
(* The amounts of the cash calls of two sessions: the seeded balance. *)
SessionAmounts == {500}

(* The call a session is in, or the outcome of the call it made last:      *)
(* result is "checked" from the balance check until the call returns; step *)
(* counts the statements of its try block                                  *)
(* executed so far and writes the mutating ones among them; seen is the    *)
(* balance the check read, tid the id its trade row drew and avg_price the *)
(* average price it read.  For an exit, alone says that nothing was        *)
(* committed since the session was entered and writes counts the cash      *)
(* entries it commits.                                                     *)
NoCallOf == [op |-> "none", type |-> "", amount |-> 0, ticker |-> "", quantity |-> 0,
             price |-> 0, current_price |-> 0, binary |-> FALSE, result |-> "", seen |-> 0,
             alone |-> FALSE, writes |-> 0, step |-> 0, tid |-> 0, avg_price |-> 0]

(* What stays of a call once it has returned: its outcome. *)
Returned(call) ==
    IF call.result = "checked" THEN call
    ELSE [NoCallOf EXCEPT !.op = call.op, !.type = call.type, !.result = call.result,
                          !.writes = call.writes]

(* The key of a row: the id of a trade or cash entry, the transaction_id   *)
(* of a realised delta.                                                    *)
RowKey(row) == IF "id" \in DOMAIN row THEN row.id ELSE row.transaction_id

RECURSIVE MergeById(_, _)
(* The rows of two lists of rows in the order of their keys. *)
MergeById(a, b) ==
    IF a = << >> THEN b
    ELSE IF b = << >> THEN a
    ELSE IF RowKey(Head(a)) < RowKey(Head(b)) THEN <<Head(a)>> \o MergeById(Tail(a), b)
    ELSE <<Head(b)>> \o MergeById(a, Tail(b))

RECURSIVE RowsNotIn(_, _)
(* The rows of v, in their order, whose key is not the key of a row of c. *)
RowsNotIn(v, c) ==
    IF v = << >> THEN << >>
    ELSE IF \E i \in DOMAIN c : RowKey(c[i]) = RowKey(Head(v)) THEN RowsNotIn(Tail(v), c)
    ELSE <<Head(v)>> \o RowsNotIn(Tail(v), c)

(* The rows a statement of a session reads: the committed rows c and the    *)
(* rows p of its own transaction.                                          *)
Visible(c, p) ==
    [cash_transactions |-> MergeById(c.cash_transactions, p.cash_transactions),
     transactions |-> MergeById(c.transactions, p.transactions),
     holdings |-> [t \in DOMAIN c.holdings |->
                      IF p.holdings[t].present THEN p.holdings[t] ELSE c.holdings[t]],
     realised_delta |-> MergeById(c.realised_delta, p.realised_delta)]

(* The uncommitted rows of a session whose statements read v over the       *)
(* committed rows c, p being its uncommitted rows before its last          *)
(* statement: a holdings row it has written stays its own, and locked,     *)
(* also when it is written back to the committed values.                   *)
Uncommitted(v, c, p) ==
    [cash_transactions |-> RowsNotIn(v.cash_transactions, c.cash_transactions),
     transactions |-> RowsNotIn(v.transactions, c.transactions),
     holdings |-> [t \in DOMAIN c.holdings |->
                      IF p.holdings[t].present \/ v.holdings[t] # c.holdings[t]
                      THEN v.holdings[t] ELSE NoHolding],
     realised_delta |-> RowsNotIn(v.realised_delta, c.realised_delta)]

(* Variant: the balance query does not see the session's own entries. *)
BalanceSeen_CommittedOnly(c, p) == CashBalance(c)

(* Portfolio.cash_balance on the session's connection. *)
BalanceSeen(c, p) == CashBalance(Visible(c, p))

InitConcurrent ==
    \E seed \in Seeds :
        /\ committed = seed.store
        /\ tseq = seed.tseq
        /\ cseq = seed.cseq
        /\ sess = [s \in Sessions |-> "closed"]
        /\ work = [s \in Sessions |-> EmptyStore]
        /\ pre = [s \in Sessions |-> seed.store]
        /\ last = [s \in Sessions |-> NoCallOf]
        /\ nops = 0

(* with Portfolio() as portfolio: a new connection. *)
EnterSession(s) ==
    /\ sess[s] = "closed"
    /\ nops < MaxCalls
    /\ sess' = [sess EXCEPT ![s] = "open"]
    /\ work' = [work EXCEPT ![s] = EmptyStore]
    /\ pre' = [pre EXCEPT ![s] = committed]
    /\ last' = [last EXCEPT ![s] = [NoCallOf EXCEPT !.op = "enter"]]
    /\ UNCHANGED <<committed, tseq, cseq, nops>>

(* update_cash up to its balance check. *)
CheckCash(s, amount, type, binary) ==
    /\ sess[s] = "open"
    /\ last[s].result # "checked"
    /\ nops < MaxCalls
    /\ LET balance == BalanceSeen(committed, work[s])
       IN last' = [last EXCEPT ![s] = Returned(
                      [NoCallOf EXCEPT !.op = "update_cash", !.type = type,
                                       !.amount = amount, !.binary = binary,
                                       !.seen = balance,
                                       !.result = IF OverWithdraw(type, Number(amount, binary),
                                                                  balance)
                                                  THEN "InsufficientFunds"
                                                  ELSE "checked"])]
    /\ nops' = nops + 1
    /\ UNCHANGED <<committed, work, sess, tseq, cseq, pre>>

(* One statement of the try block of a call of session s has run on the    *)
(* session's connection and left c; the try block has n statements and     *)
(* call is the record of the call.  A statement that fails ends the call   *)
(* in its except clause, the last one in return True.  What the session    *)
(* has written since its last commit is its uncommitted work; the ids a    *)
(* statement drew stay drawn.                                              *)
StatementDone(s, c, n, call) ==
    LET r == IF ~c.ok THEN ExceptRollback(c, committed)
             ELSE IF call.step + 1 = n THEN ReturnTrue(c)
             ELSE c @@ [result |-> "checked"]
    IN /\ work' = [work EXCEPT ![s] = Uncommitted(r.store, committed,
                                                  IF c.ok THEN work[s] ELSE EmptyStore)]
       /\ tseq' = c.tseq
       /\ cseq' = c.cseq
       /\ last' = [last EXCEPT ![s] = Returned([call EXCEPT !.result = r.result,
                                                            !.step = @ + 1,
                                                            !.writes = @ + c.writes])]
       /\ UNCHANGED <<committed, sess, pre, nops>>

(* update_cash from its INSERT on. *)
InsertCashEntry(s) ==
    /\ sess[s] = "open"
    /\ last[s].op = "update_cash"
    /\ last[s].result = "checked"
    /\ StatementDone(s, InsertCash(Ctx(Visible(committed, work[s]), tseq, cseq),
                                   SignedAmount(last[s].amount, last[s].type), last[s].type),
                     1, last[s])

(* record_transaction at a manual price up to its funds check. *)
CheckTrade(s, ticker, quantity, type, price, current_price, binary) ==
    /\ sess[s] = "open"
    /\ last[s].result # "checked"
    /\ nops < MaxCalls
    /\ LET balance == BalanceSeen(committed, work[s])
       IN last' = [last EXCEPT ![s] = Returned(
                      [NoCallOf EXCEPT !.op = "record_transaction", !.type = type,
                                       !.ticker = ticker, !.quantity = quantity,
                                       !.price = price, !.current_price = current_price,
                                       !.binary = binary, !.seen = balance,
                                       !.result = IF InsufficientFunds(type,
                                                       Product(price, quantity, binary), balance)
                                                  THEN "InsufficientFunds"
                                                  ELSE "checked"])]
    /\ nops' = nops + 1
    /\ UNCHANGED <<committed, work, sess, tseq, cseq, pre>>

(* The k-th statement of the try block of a BUY: the INSERT of the trade,  *)
(* the upsert of the holding, the INSERT of the cash entry.                *)
BuyStatement(c, k, ticker, quantity, price, current_price, value) ==
    IF k = 1 THEN InsertTransaction(c, ticker, price, quantity, "BUY", value)
    ELSE IF k = 2
    THEN UpdateHoldingsOnBuy(c, ticker, quantity, price, current_price, value.binary)
    ELSE InsertCash(c, -value.hundredths, "BUY")

(* The k-th statement of the try block of a SELL: the INSERT of the trade, *)
(* the SELECT of _validate_sale, the SELECT of the average price, the      *)
(* UPDATE of the holding, the INSERT of the cash entry, the INSERT of the  *)
(* realised delta.                                                         *)
SellStatement(c, k, ticker, quantity, price, current_price, value, transaction_id, avg_price) ==
    IF k = 1 THEN InsertTransaction(c, ticker, price, quantity, "SELL", value)
    ELSE IF k = 2 THEN ValidateSale(c, ticker, quantity, value.binary)
    ELSE IF k = 3 THEN c
    ELSE IF k = 4 THEN UpdateHoldingsOnSell(c, ticker, quantity, current_price)
    ELSE IF k = 5 THEN InsertCash(c, value.hundredths, "SELL")
    ELSE InsertRealisedDelta(c, transaction_id, ticker, quantity, price, avg_price)

(* The statement of a trade that writes the holdings row of its ticker:    *)
(* the upsert of a BUY whose parameters Python can build, the UPDATE of a  *)
(* SELL.                                                                   *)
WritesHolding(call) ==
    IF call.type = "BUY" THEN call.step + 1 = 2 /\ ~IsDecimal(call.quantity, call.binary)
    ELSE call.step + 1 = 4

(* The statement of a trade that is a SELECT. *)
ReadsOnly(call) == call.type = "SELL" /\ call.step + 1 \in {2, 3}

(* The call of a session with what its next statement reads to keep: the   *)
(* id of the trade row (the next of the sequence) and the average price of *)
(* the holdings row v of the ticker.                                       *)
CallReading(call, h) ==
    [call EXCEPT !.tid = IF call.step = 0 THEN tseq ELSE @,
                 !.avg_price = IF call.type = "SELL" /\ call.step = 2
                               THEN h.average_purchase_price ELSE @]

(* The next statement of a trade that passed its funds check, on the rows  *)
(* the session's connection reads when the statement runs.  The trade row  *)
(* is inserted, and its id drawn, before the holding is written; the       *)
(* upsert of a BUY and the UPDATE of a SELL wait while another transaction *)
(* holds an uncommitted row of the ticker.  Within MaxCalls calls no two   *)
(* sessions can wait for each other.                                       *)
TradeStatements(s) ==
    /\ sess[s] = "open"
    /\ last[s].op = "record_transaction"
    /\ last[s].result = "checked"
    /\ WritesHolding(last[s]) =>
           \A o \in Sessions \ {s} : ~work[o].holdings[last[s].ticker].present
    /\ StatementDone(s,
                     IF last[s].type = "BUY"
                     THEN BuyStatement(Ctx(Visible(committed, work[s]), tseq, cseq),
                                       last[s].step + 1, last[s].ticker, last[s].quantity,
                                       last[s].price, last[s].current_price,
                                       Product(last[s].price, last[s].quantity,
                                               last[s].binary))
                     ELSE SellStatement(Ctx(Visible(committed, work[s]), tseq, cseq),
                                        last[s].step + 1, last[s].ticker, last[s].quantity,
                                        last[s].price, last[s].current_price,
                                        Product(last[s].price, last[s].quantity,
                                                last[s].binary),
                                        last[s].tid, last[s].avg_price),
                     IF last[s].type = "BUY" THEN 3 ELSE 6,
                     CallReading(last[s], Visible(committed, work[s]).holdings[last[s].ticker]))

(* The next mutating statement of a call fails in the store. *)
StatementFails(s) ==
    /\ sess[s] = "open"
    /\ last[s].result = "checked"
    /\ ~ReadsOnly(last[s])
    /\ StatementDone(s, Fail(Ctx(Visible(committed, work[s]), tseq, cseq)), 0, last[s])

(* __exit__ without an exception: commit, close. *)
CommitSession(s) ==
    /\ sess[s] = "open"
    /\ last[s].result # "checked"
    /\ committed' = Visible(committed, work[s])
    /\ sess' = [sess EXCEPT ![s] = "closed"]
    /\ work' = [work EXCEPT ![s] = EmptyStore]
    /\ last' = [last EXCEPT ![s] =
                   [NoCallOf EXCEPT !.op = "exit_commit", !.alone = (committed = pre[s]),
                                    !.writes = Len(work[s].cash_transactions)]]
    /\ UNCHANGED <<tseq, cseq, pre, nops>>

(* __exit__ with an exception: rollback, close. *)
RollbackSession(s) ==
    /\ sess[s] = "open"
    /\ last[s].result # "checked"
    /\ sess' = [sess EXCEPT ![s] = "closed"]
    /\ work' = [work EXCEPT ![s] = EmptyStore]
    /\ last' = [last EXCEPT ![s] = [NoCallOf EXCEPT !.op = "exit_rollback"]]
    /\ UNCHANGED <<committed, tseq, cseq, pre, nops>>

NextConcurrent ==
    \/ \E s \in Sessions : EnterSession(s)
    \/ \E s \in Sessions : CommitSession(s)
    \/ \E s \in Sessions : RollbackSession(s)
    \/ \E s \in Sessions, a \in SessionAmounts, k \in CashTypes, b \in BOOLEAN :
           CheckCash(s, a, k, b)
    \/ \E s \in Sessions : InsertCashEntry(s)
    \/ \E s \in Sessions, t \in Tickers, q \in Qtys, k \in TradeTypes, b \in BOOLEAN :
           CheckTrade(s, t, q, k, 103, 100, b)
    \/ \E s \in Sessions : TradeStatements(s)
    \/ \E s \in Sessions : StatementFails(s)

SpecConcurrent == InitConcurrent /\ [][NextConcurrent]_vars

(***************************************************************************)
(* C29 (as claimed): when two engine sessions run concurrently against the *)
(* same store, no interleaving of their balance checks and cash-entry      *)
(* inserts lets both spend the same cash: no WITHDRAW or BUY is committed  *)
(* that makes the committed cash balance negative.                         *)
(***************************************************************************)
C29_CommittedBalanceNeverNegative == CashBalance(committed) >= 0

(* The step of session s is a commit, and nothing was committed since the   *)
(* session was entered.                                                    *)
CommitsAlone(s) ==
    /\ sess[s] = "open"
    /\ sess'[s] = "closed"
    /\ last'[s].op = "exit_commit"
    /\ committed = pre[s]

CommitKeepsBalance ==
    \A s \in Sessions :
        (CommitsAlone(s) /\ CashBalance(committed) >= 0) => CashBalance(committed') >= 0

(***************************************************************************)
(* C29 (amended): the commit of a session during which no other session    *)
(* committed does not make the committed cash balance negative, whatever   *)
(* the other session had checked or inserted without committing.  When     *)
(* another session commits between a session's balance check and its       *)
(* commit, both can spend the same cash.                                   *)
(***************************************************************************)
C29_CommitAloneKeepsBalance == [][CommitKeepsBalance]_vars

(* A session committed debits that spent the whole balance, alone, while    *)
(* the other session was open with an uncommitted debit of its own.        *)
C29_Witness ==
    \E s \in Sessions : \E o \in Sessions \ {s} :
        /\ last[s].op = "exit_commit"
        /\ last[s].alone
        /\ last[s].writes >= 1
        /\ CashBalance(committed) = 0
        /\ sess[o] = "open"
        /\ Len(work[o].cash_transactions) >= 1
        /\ CashBalance(work[o]) < 0

(* Both sessions passed their check on the same cash and committed. *)
C29_BothSpent ==
    /\ CashBalance(committed) < 0
    /\ \A s \in Sessions : last[s].op = "exit_commit" /\ last[s].writes >= 1

====
